---- MODULE Spec2Model ----
(***************************************************************************)
(* Model of the client-bundle churn engine of the deploy orchestrator      *)
(* (src/src/churnFormat.ts): the manifest codec, the churn comparator and  *)
(* the remote baseline fetch over ssh.                                     *)
(*                                                                         *)
(* Strings are sequences of one-character strings, so that split, trim,    *)
(* join, String() and Number() are computed character by character.        *)
(***************************************************************************)
EXTENDS Integers, Sequences, FiniteSets

VARIABLES
    mode,        \* which entry point this behaviour exercises
    files,       \* collectFiles result: <<[path, size]>> in enumeration order
    content,     \* manifest text built by buildLocalManifestContent / given to parseManifest
    parsed,      \* Map returned by parseManifest(content)
    step,        \* position in the codec scenario
    oldContent,  \* compareManifests argument
    newContent,  \* compareManifests argument
    metrics,     \* <<TChurnMetrics>> once compareManifests returned, <<>> before
    pc,          \* position of loadRemoteManifest
    cmd,         \* remote command of the current runSshCommand invocation
    child,       \* the spawned ssh child: what it will still emit
    stdout,      \* runSshCommand closure variable
    stderr,      \* runSshCommand closure variable
    spawnError,  \* runSshCommand closure variable (<<>> is undefined)
    resolved,    \* runSshCommand closure variable
    built,       \* results built by the error / exit handlers, in firing order
    delivered,   \* results passed to the promise's resolve()
    existsRun,   \* record of the finished existence-check invocation
    readRun,     \* record of the finished read invocation
    fetched,     \* <<TRemoteManifestResult>> once loadRemoteManifest returned
    issued,      \* remote commands for which spawn() was called, in order
    cpc,         \* position of computeClientChurn
    dryRun,      \* opts.dryRun
    root,        \* the asset root on disk: kind and whether enumeration fails
    traversed,   \* whether collectFiles has read the asset root
    remote,      \* the remote baseline file: <<>> absent, <<text>> present
    uploadRun,   \* record of the finished upload invocation
    outcome,     \* <<settlement>> of the computeClientChurn promise
    prior,       \* <<record>> of the previous computeClientChurn call
    remoteDir,   \* the deploy's remoteDir option, as path tokens
    remoteFs,    \* files on the remote host: [path, data], paths resolved
    ops,         \* uploads and syncs run against the remote host, in order
    raw,         \* argument of shellQuoteSingle
    quoted,      \* <<result>> once shellQuoteSingle returned, <<>> before
    deploy,      \* TDeployArgs: the flags of this run
    dpc,         \* position of deployCommand.run
    exitCode,    \* <<code>> once process.exit was called, <<>> before
    trace,       \* phase operations called, remote commands run, log entries
    host,        \* the remote host: sync target, ecosystem file, PM2 processes
    host0,       \* the remote host when the run started
    pm,          \* updatePM2App: options, locals and position
    profilesSource, \* config.ts module variable: <<>> is null, else <<array>>
    calls,       \* listProfiles / resolveProfile calls made so far, in order
    walk,        \* collectFiles: the directory tree, the frames of walk, result
    bld,         \* runBuild: the child, the line buffers, the promise
    printed      \* the churn summary headers logged, one per returned call

vars == <<mode, files, content, parsed, step, oldContent, newContent, metrics,
          pc, cmd, child, stdout, stderr, spawnError, resolved, built,
          delivered, existsRun, readRun, fetched, issued,
          cpc, dryRun, root, traversed, remote, uploadRun, outcome, prior,
          remoteDir, remoteFs, ops, raw, quoted,
          deploy, dpc, exitCode, trace, host, host0, pm,
          profilesSource, calls, walk, bld, printed>>

codecVars == <<files, content, parsed, step>>
compareVars == <<oldContent, newContent, metrics>>
sshVars == <<pc, cmd, child, stdout, stderr, spawnError, resolved, built,
             delivered, existsRun, readRun, fetched, issued>>
churnVars == <<cpc, dryRun, root, traversed, remote, uploadRun, outcome, prior>>
syncVars == <<remoteDir, remoteFs, ops>>
quoteVars == <<raw, quoted>>
deployVars == <<deploy, dpc, exitCode, trace, host, host0, pm>>
lateVars == <<profilesSource, calls, walk, bld, printed>>
restVars == <<syncVars, quoteVars, deployVars, lateVars>>
otherVars == <<churnVars, restVars>>

----------------------------------------------------------------------------
(* Bounds of the model. *)

MaxFiles == 2
MaxLines == 3
MaxOldLines == 2
MaxNewLines == 2
MaxOutChunks == 2
MaxErrChunks == 1

----------------------------------------------------------------------------
(* Characters and strings. *)

NL == "\n"
SP == " "
TAB == "\t"

\* ECMAScript white space as matched by String.prototype.trim and /\s/,
\* restricted to the characters that occur in the model.
WhiteSpace == {SP, TAB}

Digits == <<"0", "1", "2", "3", "4", "5", "6", "7", "8", "9">>

DigitChars == {Digits[i] : i \in 1..10}

DigitValue(c) == (CHOOSE i \in 1..10 : Digits[i] = c) - 1

\* UTF-16 code unit of the characters that occur in the model.
CharCode(c) ==
    CASE c = TAB -> 9
      [] c = NL -> 10
      [] c = SP -> 32
      [] c = "-" -> 45
      [] c = "." -> 46
      [] c = "/" -> 47
      [] c \in DigitChars -> 48 + DigitValue(c)
      [] c = "E" -> 69
      [] c = "a" -> 97
      [] c = "b" -> 98
      [] c = "c" -> 99
      [] c = "e" -> 101
      [] c = "x" -> 120

\* s < t in the order Array.prototype.sort uses without a comparator.
RECURSIVE StrLess(_, _)
StrLess(s, t) ==
    IF t = <<>> THEN FALSE
    ELSE IF s = <<>> THEN TRUE
    ELSE IF s[1] = t[1] THEN StrLess(Tail(s), Tail(t))
    ELSE CharCode(s[1]) < CharCode(t[1])

\* String(n) for an integer n.
RECURSIVE NatToString(_)
NatToString(n) ==
    IF n < 10 THEN <<Digits[n + 1]>>
    ELSE Append(NatToString(n \div 10), Digits[(n % 10) + 1])

StringOf(n) == IF n < 0 THEN <<"-">> \o NatToString(0 - n) ELSE NatToString(n)

RECURSIVE DecimalValue(_, _)
DecimalValue(s, acc) ==
    IF s = <<>> THEN acc
    ELSE DecimalValue(Tail(s), acc * 10 + DigitValue(s[1]))

IsDecimal(s) == s # <<>> /\ \A i \in 1..Len(s) : s[i] \in DigitChars

\* Number(token), for tokens that are either an optionally signed run of
\* decimal digits or not a numeric literal at all (NaN).
Number(s) ==
    IF IsDecimal(s) THEN [finite |-> TRUE, val |-> DecimalValue(s, 0)]
    ELSE IF s # <<>> /\ s[1] = "-" /\ IsDecimal(Tail(s))
        THEN [finite |-> TRUE, val |-> 0 - DecimalValue(Tail(s), 0)]
    ELSE [finite |-> FALSE, val |-> 0]

\* s.split(sep) for a one-character separator.
RECURSIVE SplitAcc(_, _, _)
SplitAcc(s, sep, cur) ==
    IF s = <<>> THEN <<cur>>
    ELSE IF s[1] = sep THEN <<cur>> \o SplitAcc(Tail(s), sep, <<>>)
    ELSE SplitAcc(Tail(s), sep, Append(cur, s[1]))

Split(s, sep) == SplitAcc(s, sep, <<>>)

RECURSIVE TrimStart(_)
TrimStart(s) ==
    IF s # <<>> /\ s[1] \in WhiteSpace THEN TrimStart(Tail(s)) ELSE s

RECURSIVE TrimEnd(_)
TrimEnd(s) ==
    IF s # <<>> /\ s[Len(s)] \in WhiteSpace
        THEN TrimEnd(SubSeq(s, 1, Len(s) - 1))
        ELSE s

\* s.trim()
Trim(s) == TrimEnd(TrimStart(s))

\* s.split(/\s+/): every maximal run of white space is one separator.
RECURSIVE SplitWsAcc(_, _)
SplitWsAcc(s, cur) ==
    IF s = <<>> THEN <<cur>>
    ELSE IF s[1] \in WhiteSpace
        THEN <<cur>> \o SplitWsAcc(TrimStart(s), <<>>)
    ELSE SplitWsAcc(Tail(s), Append(cur, s[1]))

SplitWs(s) == SplitWsAcc(s, <<>>)

\* parts.join(sep) for a string separator.
RECURSIVE Join(_, _)
Join(parts, sep) ==
    IF parts = <<>> THEN <<>>
    ELSE IF Len(parts) = 1 THEN parts[1]
    ELSE parts[1] \o sep \o Join(Tail(parts), sep)

\* Array.prototype.sort() of strings (insertion into a sorted prefix).
RECURSIVE InsertSorted(_, _)
InsertSorted(sorted, s) ==
    IF sorted = <<>> THEN <<s>>
    ELSE IF StrLess(s, sorted[1]) THEN <<s>> \o sorted
    ELSE <<sorted[1]>> \o InsertSorted(Tail(sorted), s)

RECURSIVE SortStrings(_)
SortStrings(entries) ==
    IF entries = <<>> THEN <<>>
    ELSE InsertSorted(SortStrings(SubSeq(entries, 1, Len(entries) - 1)),
                      entries[Len(entries)])

----------------------------------------------------------------------------
(* Manifest codec. *)

EmptyMap == [p \in {} |-> 0]

\* Map.prototype.set
MapSet(map, key, value) ==
    [p \in DOMAIN map \cup {key} |-> IF p = key THEN value ELSE map[p]]

\* One manifest line `${String(size)}  ${normalizedPath}`.
ManifestEntry(file) == StringOf(file.size) \o <<SP, SP>> \o file.path

RECURSIVE ManifestEntries(_)
ManifestEntries(fs) ==
    IF fs = <<>> THEN <<>>
    ELSE <<ManifestEntry(fs[1])>> \o ManifestEntries(Tail(fs))

\* buildLocalManifestContent without entries.sort().
buildLocalManifestContentUnsorted(fs) ==
    LET entries == ManifestEntries(fs)
    IN  Join(entries, <<NL>>) \o (IF Len(entries) > 0 THEN <<NL>> ELSE <<>>)

buildLocalManifestContent(fs) ==
    LET entries == SortStrings(ManifestEntries(fs))
    IN  Join(entries, <<NL>>) \o (IF Len(entries) > 0 THEN <<NL>> ELSE <<>>)

\* ParseLine without the Number.isFinite test.
ParseLineNoFiniteCheck(map, line) ==
    LET trimmed == Trim(line)
        tokens == SplitWs(trimmed)
        filePath == Join(Tail(tokens), <<SP>>)
    IN  IF trimmed = <<>> THEN map
        ELSE IF filePath = <<>> THEN map
        ELSE MapSet(map, filePath, Number(tokens[1]).val)

\* The body of parseManifest's loop for one line.
ParseLine(map, line) ==
    LET trimmed == Trim(line)
        tokens == SplitWs(trimmed)
        sizeStr == tokens[1]
        filePath == Join(Tail(tokens), <<SP>>)
        size == Number(sizeStr)
    IN  IF trimmed = <<>> THEN map
        ELSE IF filePath = <<>> \/ ~size.finite THEN map
        ELSE MapSet(map, filePath, size.val)

RECURSIVE ParseLines(_, _)
ParseLines(map, lines) ==
    IF lines = <<>> THEN map
    ELSE ParseLines(ParseLine(map, lines[1]), Tail(lines))

parseManifest(text) == ParseLines(EmptyMap, Split(text, NL))


----------------------------------------------------------------------------
(* Churn comparator. *)

RECURSIVE Gcd(_, _)
Gcd(a, b) == IF b = 0 THEN a ELSE Gcd(b, a % b)

Abs(n) == IF n < 0 THEN 0 - n ELSE n

\* A JavaScript number that is an integer.
IntNum(n) == [kind |-> "num", num |-> n, den |-> 1]

\* The JavaScript quotient a / b of two integers: an exact ratio in lowest
\* terms, or NaN / Infinity when b is 0.
JsDivide(a, b) ==
    IF b = 0 THEN
        IF a = 0 THEN [kind |-> "NaN", num |-> 0, den |-> 0]
        ELSE [kind |-> "Infinity", num |-> a, den |-> 0]
    ELSE LET g == Gcd(Abs(a), Abs(b))
             sgn == IF b < 0 THEN 0 - 1 ELSE 1
         IN  [kind |-> "num", num |-> sgn * (a \div g), den |-> sgn * (b \div g)]

\* Percent with the guard `total >= 0`.
PercentGuardIncludesZero(part, total) ==
    IF total >= 0 THEN JsDivide(part * 100, total) ELSE IntNum(0)

\* `total > 0 ? (part * 100) / total : 0`
Percent(part, total) ==
    IF total > 0 THEN JsDivide(part * 100, total) ELSE IntNum(0)

\* `for (const size of map.values()) total += size`
RECURSIVE SumValues(_, _, _)
SumValues(map, todo, total) ==
    IF todo = {} THEN total
    ELSE LET p == CHOOSE x \in todo : TRUE
         IN  SumValues(map, todo \ {p}, total + map[p])

ZeroCounts ==
    [stableFiles |-> 0, changedFiles |-> 0, addedFiles |-> 0, removedFiles |-> 0,
     stableBytes |-> 0, changedBytes |-> 0, addedBytes |-> 0, removedBytes |-> 0]

\* ClassifyNew without the `oldSize === newSize` branch.
ClassifyNewNoStable(oldMap, filePath, newSize, acc) ==
    IF filePath \notin DOMAIN oldMap THEN
        [acc EXCEPT !.addedFiles = @ + 1, !.addedBytes = @ + newSize]
    ELSE
        [acc EXCEPT !.changedFiles = @ + 1, !.changedBytes = @ + newSize]

\* ClassifyNew accounting a changed file with its old size.
ClassifyNewChangedOldSize(oldMap, filePath, newSize, acc) ==
    IF filePath \notin DOMAIN oldMap THEN
        [acc EXCEPT !.addedFiles = @ + 1, !.addedBytes = @ + newSize]
    ELSE IF oldMap[filePath] = newSize THEN
        [acc EXCEPT !.stableFiles = @ + 1, !.stableBytes = @ + newSize]
    ELSE
        [acc EXCEPT !.changedFiles = @ + 1, !.changedBytes = @ + oldMap[filePath]]

\* ClassifyNew with the size comparison inverted.
ClassifyNewInverted(oldMap, filePath, newSize, acc) ==
    IF filePath \notin DOMAIN oldMap THEN
        [acc EXCEPT !.addedFiles = @ + 1, !.addedBytes = @ + newSize]
    ELSE IF oldMap[filePath] # newSize THEN
        [acc EXCEPT !.stableFiles = @ + 1, !.stableBytes = @ + newSize]
    ELSE
        [acc EXCEPT !.changedFiles = @ + 1, !.changedBytes = @ + newSize]

\* ClassifyNew testing `!oldSize` in place of `oldSize === undefined`.
ClassifyNewFalsyOldSize(oldMap, filePath, newSize, acc) ==
    IF filePath \notin DOMAIN oldMap \/ oldMap[filePath] = 0 THEN
        [acc EXCEPT !.addedFiles = @ + 1, !.addedBytes = @ + newSize]
    ELSE IF oldMap[filePath] = newSize THEN
        [acc EXCEPT !.stableFiles = @ + 1, !.stableBytes = @ + newSize]
    ELSE
        [acc EXCEPT !.changedFiles = @ + 1, !.changedBytes = @ + newSize]

\* Body of the loop over newMap.entries().
ClassifyNew(oldMap, filePath, newSize, acc) ==
    IF filePath \notin DOMAIN oldMap THEN
        [acc EXCEPT !.addedFiles = @ + 1, !.addedBytes = @ + newSize]
    ELSE IF oldMap[filePath] = newSize THEN
        [acc EXCEPT !.stableFiles = @ + 1, !.stableBytes = @ + newSize]
    ELSE
        [acc EXCEPT !.changedFiles = @ + 1, !.changedBytes = @ + newSize]

RECURSIVE NewLoop(_, _, _, _)
NewLoop(oldMap, newMap, todo, acc) ==
    IF todo = {} THEN acc
    ELSE LET p == CHOOSE x \in todo : TRUE
         IN  NewLoop(oldMap, newMap, todo \ {p},
                     ClassifyNew(oldMap, p, newMap[p], acc))

\* ClassifyOld without the `!newMap.has(filePath)` test.
ClassifyOldNoHasCheck(newMap, filePath, oldSize, acc) ==
    [acc EXCEPT !.removedFiles = @ + 1, !.removedBytes = @ + oldSize]

\* Body of the loop over oldMap.entries().
ClassifyOld(newMap, filePath, oldSize, acc) ==
    IF filePath \notin DOMAIN newMap THEN
        [acc EXCEPT !.removedFiles = @ + 1, !.removedBytes = @ + oldSize]
    ELSE acc

RECURSIVE OldLoop(_, _, _, _)
OldLoop(oldMap, newMap, todo, acc) ==
    IF todo = {} THEN acc
    ELSE LET p == CHOOSE x \in todo : TRUE
         IN  OldLoop(oldMap, newMap, todo \ {p},
                     ClassifyOld(newMap, p, oldMap[p], acc))

compareManifests(oldText, newText) ==
    LET oldMap == parseManifest(oldText)
        newMap == parseManifest(newText)
        totalOldBytes == SumValues(oldMap, DOMAIN oldMap, 0)
        totalNewBytes == SumValues(newMap, DOMAIN newMap, 0)
        c == OldLoop(oldMap, newMap, DOMAIN oldMap,
                     NewLoop(oldMap, newMap, DOMAIN newMap, ZeroCounts))
        totalOldFiles == Cardinality(DOMAIN oldMap)
        totalNewFiles == Cardinality(DOMAIN newMap)
    IN  [totalOldFiles |-> totalOldFiles,
         totalNewFiles |-> totalNewFiles,
         stableFiles |-> c.stableFiles,
         changedFiles |-> c.changedFiles,
         addedFiles |-> c.addedFiles,
         removedFiles |-> c.removedFiles,
         totalOldBytes |-> totalOldBytes,
         totalNewBytes |-> totalNewBytes,
         stableBytes |-> c.stableBytes,
         changedBytes |-> c.changedBytes,
         addedBytes |-> c.addedBytes,
         removedBytes |-> c.removedBytes,
         downloadImpactFilesPercent |->
             Percent(c.changedFiles + c.addedFiles, totalNewFiles),
         cacheReuseFilesPercent |-> Percent(c.stableFiles, totalNewFiles),
         downloadImpactBytesPercent |->
             Percent(c.changedBytes + c.addedBytes, totalNewBytes),
         cacheReuseBytesPercent |-> Percent(c.stableBytes, totalNewBytes)]

\* All sequences over S of length at most n.
SeqsUpTo(S, n) == UNION {[1..k -> S] : k \in 0..n}

----------------------------------------------------------------------------
(* Remote command transport and baseline fetch. *)

\* `code: number | null`: the exit code of a child killed by a signal.
NullCode == -1

ExitCodes == {0, 1, 255, NullCode}

\* String(err) of the error event's argument.
ErrMessage == <<"E">>

Concat(chunks) == Join(chunks, <<>>)

\* The i-th chunk the remote `cat` writes to its standard output.
OutChunk(i) == StringOf(i) \o <<SP, SP, ".", "/", "a", NL>>

ErrChunkPool == { <<SP>>, <<"e">> }

\* A child as spawn() returned it: what the process will write and which
\* events it will emit.  A child that could not be spawned emits `error` and
\* then possibly `exit`; a running child emits `exit` once, its stream `data`
\* events in any order relative to `exit` (the streams may still be open when
\* `exit` fires), and possibly `error`.
ChildOf(spawned, code, out, err, error, exit) ==
    [spawned |-> spawned, code |-> code, out |-> out, err |-> err,
     fullOut |-> Concat(out), fullErr |-> Concat(err),
     error |-> error, exit |-> exit]

FailedChildren ==
    { ChildOf(FALSE, NullCode, <<>>, <<>>, "pending", x) : x \in {"none", "pending"} }

ExistsChildren ==
    { ChildOf(TRUE, c, <<>>, e, x, "pending") :
        c \in ExitCodes, e \in SeqsUpTo(ErrChunkPool, MaxErrChunks),
        x \in {"none", "pending"} }
    \cup FailedChildren

ReadChildren ==
    { ChildOf(TRUE, c, [i \in 1..k |-> OutChunk(i)], e, x, "pending") :
        c \in ExitCodes, k \in 0..MaxOutChunks, e \in {<<>>, << <<"e">> >>},
        x \in {"none", "pending"} }
    \cup FailedChildren

\* No child: spawn() threw before returning one.
NoChild == ChildOf(FALSE, NullCode, <<>>, <<>>, "none", "none")

\* The chunks the remote `cat` writes for a file: one per line.
LineChunks(text) ==
    LET ls == Split(text, NL)
        n == Len(ls)
    IN  [i \in 1..(n - 1) |-> ls[i] \o <<NL>>]
            \o (IF ls[n] = <<>> THEN <<>> ELSE <<ls[n]>>)

\* Children of `test -f` when the remote host decides the exit status: 0 if
\* the baseline file exists, 1 if not, 255 if ssh itself failed.
ChurnExistsChildren ==
    { c \in ExistsChildren :
        c.spawned => /\ c.error = "none"
                     /\ c.code \in {IF remote = <<>> THEN 1 ELSE 0, 255} }

\* Children of `cat`: the file's content and status 0, or a failure.
ChurnReadChildren ==
    (IF remote = <<>>
        THEN { ChildOf(TRUE, 1, <<>>, << <<"e">> >>, "none", "pending") }
        ELSE { ChildOf(TRUE, 0, LineChunks(remote[1]), <<>>, "none", "pending") })
    \cup { ChildOf(TRUE, 255, <<>>, << <<"e">> >>, "none", "pending") }
    \cup FailedChildren

ReadChildrenNow == IF mode = "churn" THEN ChurnReadChildren ELSE ReadChildren

\* Children of the upload command (`mkdir -p ...; base64 -d > path`).
UploadChildren ==
    { ChildOf(TRUE, 0, <<>>, <<>>, "none", "pending"),
      ChildOf(TRUE, 1, <<>>, << <<"e">> >>, "none", "pending"),
      ChildOf(TRUE, 255, <<>>, << <<"e">> >>, "none", "pending") }
    \cup FailedChildren

\* The remote baseline file after the upload command of child c: written on
\* status 0; on status 1 left alone or truncated by the redirection.
RemoteAfterUpload(c, text) ==
    IF c.spawned /\ c.code = 0 THEN { <<text>> }
    ELSE IF c.spawned /\ c.code = 1 THEN { remote, << <<>> >> }
    ELSE { remote }

\* runSshCommand up to and including spawn(): a fresh closure and a child.
StartCommand(command, c) ==
    /\ issued' = Append(issued, command)
    /\ cmd' = command
    /\ child' = c
    /\ stdout' = <<>>
    /\ stderr' = <<>>
    /\ spawnError' = <<>>
    /\ resolved' = FALSE
    /\ built' = <<>>
    /\ delivered' = <<>>

\* spawn() throws synchronously (an errno other than EACCES, EAGAIN, EMFILE,
\* ENFILE, ENOENT, such as E2BIG for an oversized argument): the promise
\* executor throws and the promise rejects with the raw error.
SpawnThrows(command) == StartCommand(command, NoChild)

closureVars == <<cmd, child, stdout, stderr, spawnError, resolved, built,
                 delivered, issued>>

\* finish without the `if (resolved) return` guard.
finishUnguarded(result) ==
    /\ resolved' = TRUE
    /\ delivered' = Append(delivered, result)

\* `finish` of runSshCommand.
finish(result) ==
    IF resolved THEN UNCHANGED <<resolved, delivered>>
    ELSE /\ resolved' = TRUE
         /\ delivered' = Append(delivered, result)

Running == pc # "idle"

\* child.stdout.on("data", ...)
ChildStdoutData ==
    /\ Running
    /\ child.out # <<>>
    /\ stdout' = stdout \o Head(child.out)
    /\ child' = [child EXCEPT !.out = Tail(@)]
    /\ UNCHANGED <<pc, cmd, stderr, spawnError, resolved, built, delivered,
                   existsRun, readRun, fetched, issued>>
    /\ UNCHANGED <<mode, codecVars, compareVars, otherVars>>

\* child.stderr.on("data", ...)
ChildStderrData ==
    /\ Running
    /\ child.err # <<>>
    /\ stderr' = stderr \o Head(child.err)
    /\ child' = [child EXCEPT !.err = Tail(@)]
    /\ UNCHANGED <<pc, cmd, stdout, spawnError, resolved, built, delivered,
                   existsRun, readRun, fetched, issued>>
    /\ UNCHANGED <<mode, codecVars, compareVars, otherVars>>

\* child.on("error", ...)
ChildError ==
    /\ Running
    /\ child.error = "pending"
    /\ spawnError' = ErrMessage
    /\ stderr' = stderr \o ErrMessage
    /\ LET result == [code |-> 1, stdout |-> stdout, stderr |-> stderr',
                      spawnError |-> spawnError']
       IN  /\ built' = Append(built, result)
           /\ finish(result)
    /\ child' = [child EXCEPT !.error = "fired"]
    /\ UNCHANGED <<pc, cmd, stdout, existsRun, readRun, fetched, issued>>
    /\ UNCHANGED <<mode, codecVars, compareVars, otherVars>>

\* child.on("exit", ...)
ChildExit ==
    /\ Running
    /\ child.exit = "pending"
    /\ child.spawned \/ child.error = "fired"
    /\ LET result == [code |-> child.code, stdout |-> stdout, stderr |-> stderr,
                      spawnError |-> spawnError]
       IN  /\ built' = Append(built, result)
           /\ finish(result)
    /\ child' = [child EXCEPT !.exit = "fired"]
    /\ UNCHANGED <<pc, cmd, stdout, stderr, spawnError, existsRun, readRun, fetched, issued>>
    /\ UNCHANGED <<mode, codecVars, compareVars, otherVars>>

\* What a finished invocation's child was and did, beside the result the
\* promise delivered.
RunRecord(result) ==
    [result |-> result, spawned |-> child.spawned, exitCode |-> child.code,
     exited |-> child.exit = "fired", errorEvent |-> child.error # "none",
     fullOut |-> child.fullOut, fullErr |-> child.fullErr]

ExitReason(code, doing) ==
    <<"ssh exited with code ", IF code = NullCode THEN "null" ELSE code, doing>>

\* The existence test also passing when `test -f` exits with status 1.
existsConfirmedOrAbsent(existsResult) == existsResult.code \in {0, 1}

\* `if (existsResult.code === 0)`: the file exists, continue to read.
existsConfirmed(existsResult) == existsResult.code = 0

\* loadRemoteManifest from the resolution of the `test -f` command to its
\* return or to the spawn of the `cat` command.
LoadAfterExists ==
    /\ pc = "exists"
    /\ delivered # <<>>
    /\ LET existsResult == delivered[1]
       IN  /\ existsRun' = <<RunRecord(existsResult)>>
           /\ IF existsResult.spawnError # <<>> THEN
                  /\ fetched' = <<[kind |-> "error", reason |-> existsResult.spawnError]>>
                  /\ pc' = "done"
                  /\ UNCHANGED <<cmd, child, stdout, stderr, spawnError,
                                 resolved, built, delivered, issued>>
              ELSE IF existsConfirmed(existsResult) THEN
                  /\ \/ /\ \E c \in ReadChildrenNow : StartCommand("cat", c)
                        /\ pc' = "read"
                     \/ /\ SpawnThrows("cat")
                        /\ pc' = "threw"
                  /\ UNCHANGED fetched
              ELSE IF existsResult.code = 1 /\ Trim(existsResult.stderr) = <<>> THEN
                  /\ fetched' = <<[kind |-> "none"]>>
                  /\ pc' = "done"
                  /\ UNCHANGED <<cmd, child, stdout, stderr, spawnError,
                                 resolved, built, delivered, issued>>
              ELSE
                  /\ fetched' =
                        <<[kind |-> "error",
                           reason |-> IF existsResult.stderr # <<>>
                                        THEN existsResult.stderr
                                        ELSE ExitReason(existsResult.code,
                                                        " checking manifest")]>>
                  /\ pc' = "done"
                  /\ UNCHANGED <<cmd, child, stdout, stderr, spawnError,
                                 resolved, built, delivered, issued>>
    /\ UNCHANGED readRun
    /\ UNCHANGED <<mode, codecVars, compareVars, otherVars>>

\* loadRemoteManifest from the resolution of the `cat` command to its return.
LoadAfterRead ==
    /\ pc = "read"
    /\ delivered # <<>>
    /\ LET contentResult == delivered[1]
       IN  /\ readRun' = <<RunRecord(contentResult)>>
           /\ fetched' =
                 IF contentResult.spawnError # <<>> THEN
                     <<[kind |-> "error", reason |-> contentResult.spawnError]>>
                 ELSE IF contentResult.code # 0 THEN
                     <<[kind |-> "error",
                        reason |-> IF contentResult.stderr # <<>>
                                     THEN contentResult.stderr
                                     ELSE ExitReason(contentResult.code,
                                                     " reading manifest")]>>
                 ELSE <<[kind |-> "ok", content |-> contentResult.stdout]>>
    /\ pc' = "done"
    /\ UNCHANGED <<cmd, child, stdout, stderr, spawnError, resolved, built,
                   delivered, existsRun, issued>>
    /\ UNCHANGED <<mode, codecVars, compareVars, otherVars>>

----------------------------------------------------------------------------
(* Inputs. *)

\* Asset paths as normalizeManifestPath returns them ("./" + relative path);
\* file names may contain spaces and tabs.
PathPool ==
    { <<".", "/", "a">>,
      <<".", "/", "b">>,
      <<".", "/", "a", SP, "b">>,
      <<".", "/", "a", SP, SP, "b">>,
      <<".", "/", "a", TAB, "b">> }

SizePool == {0, 3, 12}

FileLists ==
    { fs \in SeqsUpTo([path : PathPool, size : SizePool], MaxFiles) :
        \A i, j \in 1..Len(fs) : i # j => fs[i].path # fs[j].path }

\* Lines of text handed to parseManifest: well-formed, duplicate path,
\* blank, non-numeric size, missing path, odd spacing.
ParseLinePool ==
    { <<"3", SP, SP, ".", "/", "a">>,
      <<"1", "2", SP, ".", "/", "a">>,
      <<>>,
      <<SP, TAB>>,
      <<"x", SP, SP, ".", "/", "b">>,
      <<"5">>,
      <<TAB, "7", TAB, ".", "/", "a", SP, SP, "b", SP>> }

TextsOf(pool, n) == { Join(ls, <<NL>>) : ls \in SeqsUpTo(pool, n) }

\* Lines of the manifests handed to compareManifests.
CompareLinePool ==
    { <<"3", SP, SP, ".", "/", "a">>,
      <<"1", "2", SP, SP, ".", "/", "a">>,
      <<"0", SP, SP, ".", "/", "b">>,
      <<"3", SP, SP, ".", "/", "c">>,
      <<"x", SP, SP, ".", "/", "b">> }

----------------------------------------------------------------------------
(* Behaviours. *)

IdleCodec == files = <<>> /\ content = <<>> /\ parsed = EmptyMap /\ step = "idle"
IdleCompare == oldContent = <<>> /\ newContent = <<>> /\ metrics = <<>>
IdleSsh ==
    /\ pc = "idle" /\ cmd = "none" /\ child = <<>>
    /\ stdout = <<>> /\ stderr = <<>> /\ spawnError = <<>>
    /\ resolved = FALSE /\ built = <<>> /\ delivered = <<>>
    /\ existsRun = <<>> /\ readRun = <<>> /\ fetched = <<>>
    /\ issued = <<>>
IdleChurn ==
    /\ cpc = "idle" /\ dryRun = FALSE /\ root = <<>> /\ traversed = FALSE
    /\ remote = <<>> /\ uploadRun = <<>> /\ outcome = <<>> /\ prior = <<>>
IdleSync == remoteDir = <<>> /\ remoteFs = {} /\ ops = <<>>
IdleQuote == raw = <<>> /\ quoted = <<>>
IdleDeploy ==
    /\ deploy = <<>> /\ dpc = "idle" /\ exitCode = <<>> /\ trace = <<>>
    /\ host = <<>> /\ host0 = <<>> /\ pm = <<>>
IdleLate ==
    /\ profilesSource = <<>> /\ calls = <<>> /\ walk = <<>> /\ bld = <<>>
    /\ printed = <<>>
IdleRest == IdleSync /\ IdleQuote /\ IdleDeploy /\ IdleLate
IdleOther == IdleChurn /\ IdleRest

InitBuild ==
    /\ mode = "build"
    /\ files \in FileLists
    /\ content = <<>> /\ parsed = EmptyMap /\ step = "files"
    /\ IdleCompare
    /\ IdleSsh
    /\ IdleOther

InitParse ==
    /\ mode = "parse"
    /\ files = <<>>
    /\ content \in TextsOf(ParseLinePool, MaxLines)
    /\ parsed = EmptyMap /\ step = "text"
    /\ IdleCompare
    /\ IdleSsh
    /\ IdleOther

InitCompare ==
    /\ mode = "compare"
    /\ IdleCodec
    /\ oldContent \in TextsOf(CompareLinePool, MaxOldLines)
    /\ newContent \in TextsOf(CompareLinePool, MaxNewLines)
    /\ metrics = <<>>
    /\ IdleSsh
    /\ IdleOther

\* buildLocalManifestContent(clientDir) over the enumerated files.
BuildManifest ==
    /\ step = "files"
    /\ content' = buildLocalManifestContent(files)
    /\ step' = "text"
    /\ UNCHANGED <<mode, files, parsed>>
    /\ UNCHANGED compareVars
    /\ UNCHANGED sshVars
    /\ UNCHANGED otherVars

\* parseManifest(content)
ParseManifest ==
    /\ step = "text"
    /\ parsed' = parseManifest(content)
    /\ step' = "parsed"
    /\ UNCHANGED <<mode, files, content>>
    /\ UNCHANGED compareVars
    /\ UNCHANGED sshVars
    /\ UNCHANGED otherVars

\* compareManifests(oldContent, newContent)
Compare ==
    /\ mode = "compare"
    /\ metrics = <<>>
    /\ metrics' = <<compareManifests(oldContent, newContent)>>
    /\ UNCHANGED <<mode, oldContent, newContent>>
    /\ UNCHANGED codecVars
    /\ UNCHANGED sshVars
    /\ UNCHANGED otherVars

\* loadRemoteManifest has been called and has spawned `test -f`.
InitFetch ==
    /\ mode = "fetch"
    /\ IdleCodec
    /\ IdleCompare
    /\ pc = "exists" /\ cmd = "test"
    /\ child \in ExistsChildren
    /\ stdout = <<>> /\ stderr = <<>> /\ spawnError = <<>>
    /\ resolved = FALSE /\ built = <<>> /\ delivered = <<>>
    /\ existsRun = <<>> /\ readRun = <<>> /\ fetched = <<>>
    /\ issued = <<"test">>
    /\ IdleOther

----------------------------------------------------------------------------
(* Remote paths: the baseline file and the sync target.  A path is a *)
(* sequence of tokens: the separator "/" or a whole file name.       *)

MaxOps == 3

SLASH == "/"

\* Baseline path placed inside the directory the sync mirrors.
buildRemoteManifestPathUnderOutput(dir) ==
    dir \o <<SLASH, ".output", SLASH, ".deploy", SLASH, "manifest">>

\* `${remoteDir}/.deploy/manifest`
buildRemoteManifestPath(dir) ==
    dir \o <<SLASH, ".deploy", SLASH, "manifest">>

\* normalizeString of path.posix: drops empty and "." segments and resolves
\* ".." against the segments before it.
RECURSIVE NormalizeSegments(_, _, _)
NormalizeSegments(segs, acc, isAbsolute) ==
    IF segs = <<>> THEN acc
    ELSE LET seg == segs[1]
             rest == Tail(segs)
         IN  IF seg = <<>> \/ seg = <<".">> THEN
                 NormalizeSegments(rest, acc, isAbsolute)
             ELSE IF seg = <<"..">> THEN
                 IF acc # <<>> /\ acc[Len(acc)] # <<"..">> THEN
                     NormalizeSegments(rest, SubSeq(acc, 1, Len(acc) - 1), isAbsolute)
                 ELSE IF isAbsolute THEN
                     NormalizeSegments(rest, acc, isAbsolute)
                 ELSE
                     NormalizeSegments(rest, Append(acc, seg), isAbsolute)
             ELSE NormalizeSegments(rest, Append(acc, seg), isAbsolute)

\* path.posix.normalize(p)
normalizePosix(p) ==
    IF p = <<>> THEN <<".">>
    ELSE LET isAbsolute == p[1] = SLASH
             trailing == p[Len(p)] = SLASH
             body == Join(NormalizeSegments(Split(p, SLASH), <<>>, isAbsolute),
                          <<SLASH>>)
             dotted == IF body = <<>> /\ ~isAbsolute THEN <<".">> ELSE body
             slashed == IF dotted # <<>> /\ trailing THEN Append(dotted, SLASH)
                                                     ELSE dotted
         IN  IF isAbsolute THEN <<SLASH>> \o slashed ELSE slashed

\* path.posix.join(a, b): the non-empty arguments joined by "/", normalized.
joinPosix(a, b) ==
    IF a = <<>> /\ b = <<>> THEN <<".">>
    ELSE IF a = <<>> THEN normalizePosix(b)
    ELSE IF b = <<>> THEN normalizePosix(a)
    ELSE normalizePosix(a \o <<SLASH>> \o b)

\* addTrailingSlashPosix(dir)
addTrailingSlashPosix(dir) ==
    IF dir # <<>> /\ dir[Len(dir)] = SLASH THEN dir ELSE Append(dir, SLASH)

\* `path.posix.join(remoteDir, ".output")`, as handed to rsync.
remoteTarget(dir) == addTrailingSlashPosix(joinPosix(dir, <<".output">>))

\* The login directory of the ssh user.
HomeDir == << <<"home">> >>

\* Path resolution on the remote host: the file names from the root, a
\* relative path starting at the login directory.
RECURSIVE WalkSegments(_, _)
WalkSegments(segs, at) ==
    IF segs = <<>> THEN at
    ELSE LET seg == segs[1]
         IN  IF seg = <<>> \/ seg = <<".">> THEN WalkSegments(Tail(segs), at)
             ELSE IF seg = <<"..">> THEN
                 WalkSegments(Tail(segs),
                              IF at = <<>> THEN at ELSE SubSeq(at, 1, Len(at) - 1))
             ELSE WalkSegments(Tail(segs), Append(at, seg))

ResolveRemote(p) ==
    WalkSegments(Split(p, SLASH),
                 IF p # <<>> /\ p[1] = SLASH THEN <<>> ELSE HomeDir)

IsUnder(file, dir) ==
    Len(file) > Len(dir) /\ SubSeq(file, 1, Len(dir)) = dir

\* remoteDir options.
RemoteDirPool ==
    { <<SLASH, "srv", SLASH, "app">>,
      <<SLASH, "srv", SLASH, "app", SLASH>>,
      <<SLASH, "srv", SLASH, SLASH, "app">>,
      <<SLASH, "srv", SLASH, "app", SLASH, "..">>,
      <<SLASH, "srv", SLASH, ".", SLASH, ".output">>,
      <<"app">>,
      <<"..", SLASH, "app">>,
      <<>> }

\* Files of the local build output, relative to it.
LocalOutputPool ==
    SUBSET { << <<"a">> >>, << <<".deploy">>, <<"manifest">> >> }

\* Files on the remote host before the deploy: one left in the sync target
\* by an earlier build, one next to it.
RemoteFsPool(dir) ==
    SUBSET { [path |-> ResolveRemote(remoteTarget(dir)) \o << <<"old">> >>,
              data |-> "stale"],
             [path |-> ResolveRemote(dir) \o << <<"keep">> >>, data |-> "kept"] }

\* The remote files after `rsync -a --delete source/ target/`.
Mirror(fs, target, localFiles) ==
    { f \in fs : ~IsUnder(f.path, target) }
        \cup { [path |-> target \o rel, data |-> "asset"] : rel \in localFiles }

InitSync ==
    /\ mode = "sync"
    /\ IdleCodec /\ IdleCompare /\ IdleSsh /\ IdleChurn /\ IdleQuote
    /\ IdleDeploy /\ IdleLate
    /\ remoteDir \in RemoteDirPool
    /\ remoteFs \in RemoteFsPool(remoteDir)
    /\ ops = <<>>

\* uploadRemoteManifest succeeding: its effect on the remote files.
UploadManifest ==
    /\ mode = "sync"
    /\ Len(ops) < MaxOps
    /\ LET file == ResolveRemote(buildRemoteManifestPath(remoteDir))
       IN  /\ remoteFs' = { f \in remoteFs : f.path # file }
                              \cup { [path |-> file, data |-> "manifest"] }
           /\ ops' = Append(ops, [op |-> "upload", dryRun |-> FALSE,
                                  ok |-> TRUE, removed |-> {}])
    /\ UNCHANGED <<mode, codecVars, compareVars, sshVars, churnVars>>
    /\ UNCHANGED <<remoteDir, quoteVars, deployVars, lateVars>>

\* syncBuild: ensureRemoteDir and rsync; a dry run or a failed run leaves the
\* remote files alone.
SyncBuild ==
    /\ mode = "sync"
    /\ Len(ops) < MaxOps
    /\ \E dry \in BOOLEAN, ok \in BOOLEAN, localFiles \in LocalOutputPool :
          /\ remoteFs' =
                IF dry \/ ~ok THEN remoteFs
                ELSE Mirror(remoteFs, ResolveRemote(remoteTarget(remoteDir)),
                            localFiles)
          /\ ops' = Append(ops, [op |-> "sync", dryRun |-> dry, ok |-> ok,
                                 removed |-> remoteFs \ remoteFs'])
    /\ UNCHANGED <<mode, codecVars, compareVars, sshVars, churnVars>>
    /\ UNCHANGED <<remoteDir, quoteVars, deployVars, lateVars>>

----------------------------------------------------------------------------
(* Shell quoting. *)

MaxQuoteLen == 3

QUOTE == "'"
DQUOTE == "\""
BACKSLASH == "\\"
\* The grave accent, written as a token.
BACKTICK == "GRAVE"

\* text.replace(/c/g, replacement) for a one-character pattern and a
\* replacement without `$` patterns.
RECURSIVE ReplaceAll(_, _, _)
ReplaceAll(text, c, replacement) ==
    IF text = <<>> THEN <<>>
    ELSE (IF text[1] = c THEN replacement ELSE <<text[1]>>)
            \o ReplaceAll(Tail(text), c, replacement)

\* shellQuoteSingle without the replacement of embedded single quotes.
shellQuoteSingleNoEscape(v) == <<QUOTE>> \o v \o <<QUOTE>>

\* "'" + value.replace(/'/g, `'"'"'`) + "'"
shellQuoteSingle(v) ==
    <<QUOTE>>
        \o ReplaceAll(v, QUOTE, <<QUOTE, DQUOTE, QUOTE, DQUOTE, QUOTE>>)
        \o <<QUOTE>>

\* Characters of the quoted values.
QuoteChars == {QUOTE, DQUOTE, BACKSLASH, SP, ";", "$", "a"}

InitQuote ==
    /\ mode = "quote"
    /\ IdleCodec /\ IdleCompare /\ IdleSsh /\ IdleChurn /\ IdleSync
    /\ IdleDeploy /\ IdleLate
    /\ raw \in SeqsUpTo(QuoteChars, MaxQuoteLen)
    /\ quoted = <<>>

ShellQuote ==
    /\ mode = "quote"
    /\ quoted = <<>>
    /\ quoted' = <<shellQuoteSingle(raw)>>
    /\ UNCHANGED <<mode, codecVars, compareVars, sshVars, churnVars>>
    /\ UNCHANGED <<raw, syncVars, deployVars, lateVars>>

Init ==
    \/ InitBuild
    \/ InitParse
    \/ InitCompare
    \/ InitFetch
    \/ InitSync
    \/ InitQuote

Next ==
    \/ BuildManifest
    \/ ParseManifest
    \/ Compare
    \/ ChildStdoutData
    \/ ChildStderrData
    \/ ChildError
    \/ ChildExit
    \/ LoadAfterExists
    \/ LoadAfterRead
    \/ UploadManifest
    \/ SyncBuild
    \/ ShellQuote

Spec == Init /\ [][Next]_vars


----------------------------------------------------------------------------
(* computeClientChurn. *)

Rejected(cause) == <<[kind |-> "rejected", cause |-> cause]>>
Returned(m) == <<[kind |-> "returned", metrics |-> m]>>

\* computeChurnFromManifests comparing the local manifest with itself when
\* there is no baseline.
computeChurnFromManifestsSelf(remoteManifest, localManifestContent) ==
    compareManifests(IF remoteManifest.kind = "none" THEN localManifestContent
                                                     ELSE remoteManifest.content,
                     localManifestContent)

computeChurnFromManifests(remoteManifest, localManifestContent) ==
    compareManifests(IF remoteManifest.kind = "none" THEN <<>>
                                                     ELSE remoteManifest.content,
                     localManifestContent)

\* directoryExists accepting any existing entry, directory or not.
directoryExistsAnyEntry == root.kind # "missing"

\* directoryExists(clientDir)
directoryExists == root.kind = "dir"

\* The upload condition without the dryRun test.
uploadBaselineAlways == TRUE

\* `if (!opts.dryRun)`: whether the new manifest is uploaded.
uploadBaseline == ~dryRun

\* The fetch check falling back to a first deploy on a fetch error.
checkRemoteManifestFirstDeploy(remoteManifest) ==
    [reject |-> FALSE,
     manifest |-> IF remoteManifest.kind = "error" THEN [kind |-> "none"]
                                                   ELSE remoteManifest]

\* `if (remoteManifest.kind === "error") throw ...`
checkRemoteManifest(remoteManifest) ==
    [reject |-> remoteManifest.kind = "error", manifest |-> remoteManifest]

\* computeClientChurn from its call to the spawn of `test -f`:
\* ensureClientDirectory, buildLocalManifestContent, loadRemoteManifest.
ChurnStart ==
    /\ cpc = "start"
    /\ IF ~directoryExists THEN
           /\ outcome' = Rejected("CHURN_NO_CLIENT_DIR")
           /\ cpc' = "rejected"
           /\ UNCHANGED <<traversed, content, pc, closureVars>>
       ELSE IF root.readFails THEN
           /\ traversed' = TRUE
           /\ outcome' = Rejected("CHURN_COMPUTE_FAILED")
           /\ cpc' = "rejected"
           /\ UNCHANGED <<content, pc, closureVars>>
       ELSE
           /\ traversed' = TRUE
           /\ content' = buildLocalManifestContent(files)
           /\ \/ /\ \E c \in ChurnExistsChildren : StartCommand("test", c)
                 /\ pc' = "exists"
                 /\ cpc' = "fetch"
                 /\ UNCHANGED outcome
              \/ /\ SpawnThrows("test")
                 /\ pc' = "threw"
                 /\ cpc' = "rejected"
                 /\ outcome' = Rejected("untyped")
    /\ UNCHANGED <<mode, files, parsed, step, compareVars>>
    /\ UNCHANGED <<existsRun, readRun, fetched>>
    /\ UNCHANGED <<dryRun, root, remote, uploadRun, prior>>
    /\ UNCHANGED restVars

\* computeClientChurn from the settlement of loadRemoteManifest to its
\* return or to the spawn of the upload command.
ChurnAfterFetch ==
    /\ cpc = "fetch"
    /\ pc \in {"done", "threw"}
    /\ IF pc = "threw" THEN
           /\ outcome' = Rejected("untyped")
           /\ cpc' = "rejected"
           /\ UNCHANGED <<compareVars, closureVars, remote>>
       ELSE IF checkRemoteManifest(fetched[1]).reject THEN
           /\ outcome' = Rejected("CHURN_REMOTE_MANIFEST_FETCH_FAILED")
           /\ cpc' = "rejected"
           /\ UNCHANGED <<compareVars, closureVars, remote>>
       ELSE
           /\ oldContent' =
                  (IF checkRemoteManifest(fetched[1]).manifest.kind = "none"
                      THEN <<>>
                      ELSE checkRemoteManifest(fetched[1]).manifest.content)
           /\ newContent' = content
           /\ metrics' = <<computeChurnFromManifests(
                               checkRemoteManifest(fetched[1]).manifest, content)>>
           /\ IF ~uploadBaseline THEN
                  /\ outcome' = Returned(metrics'[1])
                  /\ cpc' = "returned"
                  /\ UNCHANGED <<closureVars, remote>>
              ELSE
                  \/ /\ \E c \in UploadChildren :
                           /\ StartCommand("upload", c)
                           /\ remote' \in RemoteAfterUpload(c, content)
                     /\ cpc' = "upload"
                     /\ UNCHANGED outcome
                  \/ /\ SpawnThrows("upload")
                     /\ cpc' = "rejected"
                     /\ outcome' = Rejected("untyped")
                     /\ UNCHANGED remote
    /\ UNCHANGED <<mode, codecVars, pc, existsRun, readRun, fetched>>
    /\ UNCHANGED <<dryRun, root, traversed, uploadRun, prior>>
    /\ UNCHANGED restVars

\* uploadRemoteManifest from the resolution of the upload command, and the
\* return of computeClientChurn.
ChurnAfterUpload ==
    /\ cpc = "upload"
    /\ delivered # <<>>
    /\ LET result == delivered[1]
       IN  /\ uploadRun' = <<RunRecord(result)>>
           /\ IF result.spawnError # <<>> \/ result.code # 0 THEN
                  /\ outcome' = Rejected("CHURN_REMOTE_MANIFEST_UPLOAD_FAILED")
                  /\ cpc' = "rejected"
              ELSE
                  /\ outcome' = Returned(metrics[1])
                  /\ cpc' = "returned"
    /\ UNCHANGED <<mode, codecVars, compareVars, sshVars>>
    /\ UNCHANGED <<dryRun, root, traversed, remote, prior>>
    /\ UNCHANGED restVars

\* The caller runs computeClientChurn once more, without dryRun, over the
\* same asset tree and remote host.
ChurnCallAgain ==
    /\ cpc = "returned"
    /\ prior = <<>>
    /\ prior' = <<[dryRun |-> dryRun, outcome |-> outcome[1], remote |-> remote]>>
    /\ dryRun' = FALSE
    /\ cpc' = "start"
    /\ outcome' = <<>> /\ uploadRun' = <<>> /\ traversed' = FALSE
    /\ content' = <<>>
    /\ oldContent' = <<>> /\ newContent' = <<>> /\ metrics' = <<>>
    /\ pc' = "idle" /\ cmd' = "none" /\ child' = NoChild
    /\ stdout' = <<>> /\ stderr' = <<>> /\ spawnError' = <<>>
    /\ resolved' = FALSE /\ built' = <<>> /\ delivered' = <<>>
    /\ existsRun' = <<>> /\ readRun' = <<>> /\ fetched' = <<>>
    /\ issued' = <<>>
    /\ UNCHANGED <<mode, files, parsed, step, root, remote>>
    /\ UNCHANGED restVars

\* buildHeader reading the totals of the new manifest for hasBaseline.
buildHeaderFromNewTotals(m, isDryRun) ==
    LET hasBaseline == m.totalNewFiles > 0 \/ m.totalNewBytes > 0
    IN  IF ~hasBaseline /\ isDryRun
            THEN "Client cache impact (no previous baseline, dry run; baseline not updated)"
        ELSE IF ~hasBaseline THEN "Client cache impact (no previous baseline)"
        ELSE IF isDryRun THEN "Client cache impact (dry run; baseline not updated)"
        ELSE "Client cache impact"

\* buildHeader(metrics, options), churnFormat.ts
buildHeader(m, isDryRun) ==
    LET hasBaseline == m.totalOldFiles > 0 \/ m.totalOldBytes > 0
    IN  IF ~hasBaseline /\ isDryRun
            THEN "Client cache impact (no previous baseline, dry run; baseline not updated)"
        ELSE IF ~hasBaseline THEN "Client cache impact (no previous baseline)"
        ELSE IF isDryRun THEN "Client cache impact (dry run; baseline not updated)"
        ELSE "Client cache impact"

\* The call of computeClientChurn the caller is at: the first or the second.
CallNumber == Len(prior) + 1

SummaryLogged == \E i \in 1..Len(printed) : printed[i].call = CallNumber

\* logChurnSummary(metrics, { dryRun }) after computeClientChurn returned.
LogChurnSummary ==
    /\ mode = "churn" /\ cpc = "returned"
    /\ ~SummaryLogged
    /\ printed' = Append(printed,
                         [call |-> CallNumber,
                          header |-> buildHeader(outcome[1].metrics, dryRun)])
    /\ UNCHANGED <<mode, codecVars, compareVars, sshVars, churnVars>>
    /\ UNCHANGED <<syncVars, quoteVars, deployVars, profilesSource, calls, walk, bld>>

\* Asset trees of the churn scenarios.
ChurnFileLists ==
    { fs \in FileLists :
        \A i \in 1..Len(fs) :
            fs[i].size = 3 /\ fs[i].path \in {<<".", "/", "a">>, <<".", "/", "b">>} }

\* Remote baselines of the churn scenarios: absent, or a previous manifest.
BaselinePool ==
    { <<>>,
      << <<"3", SP, SP, ".", "/", "a", NL>> >>,
      << <<"1", "2", SP, SP, ".", "/", "a", NL, "3", SP, SP, ".", "/", "b", NL>> >> }

InitChurn ==
    /\ mode = "churn"
    /\ root \in [kind : {"missing", "file"}, readFails : {FALSE}]
                    \cup [kind : {"dir"}, readFails : BOOLEAN]
    /\ files \in ChurnFileLists
    /\ (root.kind # "dir" \/ root.readFails) => files = <<>>
    /\ content = <<>> /\ parsed = EmptyMap /\ step = "idle"
    /\ IdleCompare
    /\ pc = "idle" /\ cmd = "none" /\ child = NoChild
    /\ stdout = <<>> /\ stderr = <<>> /\ spawnError = <<>>
    /\ resolved = FALSE /\ built = <<>> /\ delivered = <<>>
    /\ existsRun = <<>> /\ readRun = <<>> /\ fetched = <<>>
    /\ issued = <<>>
    /\ cpc = "start"
    /\ dryRun \in BOOLEAN
    /\ traversed = FALSE
    /\ remote \in BaselinePool
    /\ uploadRun = <<>> /\ outcome = <<>> /\ prior = <<>>
    /\ IdleRest

NextChurn ==
    \/ ChurnStart
    \/ ChildStdoutData
    \/ ChildStderrData
    \/ ChildError
    \/ ChildExit
    \/ LoadAfterExists
    \/ LoadAfterRead
    \/ ChurnAfterFetch
    \/ ChurnAfterUpload
    \/ ChurnCallAgain
    \/ LogChurnSummary

SpecChurn == InitChurn /\ [][NextChurn]_vars

----------------------------------------------------------------------------
(* pm2.ts: what runSshCommand captures of a child's output.  A text is a *)
(* sequence of tokens: single characters, or whole JSON tokens.          *)

CR == "\r"

\* buffer.split(/\r?\n/)
RECURSIVE SplitLinesAcc(_, _)
SplitLinesAcc(s, cur) ==
    IF s = <<>> THEN <<cur>>
    ELSE IF s[1] = NL THEN <<cur>> \o SplitLinesAcc(Tail(s), <<>>)
    ELSE IF s[1] = CR /\ Len(s) > 1 /\ s[2] = NL
        THEN <<cur>> \o SplitLinesAcc(Tail(Tail(s)), <<>>)
    ELSE SplitLinesAcc(Tail(s), Append(cur, s[1]))

SplitLines(s) == SplitLinesAcc(s, <<>>)

\* The lines flushLines hands to `collect`, each followed by "\n".
RECURSIVE CollectLines(_)
CollectLines(lines) ==
    IF lines = <<>> THEN <<>>
    ELSE lines[1] \o <<NL>> \o CollectLines(Tail(lines))

\* flushLines(buffer, cb, collect): what is collected and what is returned.
flushLines(buffer, hasCb) ==
    IF ~hasCb THEN [collected |-> <<>>, incomplete |-> <<>>]
    ELSE LET lines == SplitLines(buffer)
             n == Len(lines)
         IN  [collected |-> CollectLines(SubSeq(lines, 1, n - 1)),
              incomplete |-> lines[n]]

\* One stream of wireCallbacks: the 'data' handler run for every chunk, then
\* flushRemaining.  acc is the text collected so far, buf the line buffer.
RECURSIVE WireStream(_, _, _, _)
WireStream(chunks, hasCb, acc, buf) ==
    IF chunks = <<>> THEN
        IF buf # <<>> THEN acc \o flushLines(buf \o <<NL>>, hasCb).collected
                      ELSE acc
    ELSE IF ~hasCb THEN
        WireStream(Tail(chunks), hasCb, acc \o chunks[1], buf)
    ELSE LET r == flushLines(buf \o chunks[1], hasCb)
         IN  WireStream(Tail(chunks), hasCb, acc \o r.collected, r.incomplete)

resolveStdio(outputMode) == outputMode # "silent"

\* The text a stream contributes to the result of runSshCommand at 'close'.
Capture(outputMode, hasCb, chunks) ==
    IF ~resolveStdio(outputMode) THEN <<>>
    ELSE IF outputMode = "callbacks" THEN WireStream(chunks, hasCb, <<>>, <<>>)
    ELSE Concat(chunks)

\* The ways a child may deliver a text: whole, or cut in two.
Chunkings(text) ==
    { IF text = <<>> THEN <<>> ELSE <<text>> }
        \cup { <<SubSeq(text, 1, k), SubSeq(text, k + 1, Len(text))>> :
                  k \in 1..(Len(text) - 1) }

----------------------------------------------------------------------------
(* pm2.ts: updatePM2App. *)

AppName == "app"

\* One token per process object of `pm2 jlist`: its name and status.
ProcTokens == {"app:online", "app:stopped", "other:online"}
ProcOrder == <<"other:online", "app:online", "app:stopped">>
AppTokens == {"app:online", "app:stopped"}

ProcName(t) == IF t \in AppTokens THEN "app" ELSE "other"
ProcStatus(t) == IF t = "app:stopped" THEN "stopped" ELSE "online"

\* The JSON text `pm2 jlist` prints for the registered processes.
JlistText(procs) ==
    <<"[">> \o SelectSeq(ProcOrder, LAMBDA t : t \in procs) \o <<"]">>

\* Output that is no JSON: a banner line of the PM2 daemon.
JlistBanner == <<"x", NL>>

JsonBlank == {SP, TAB, NL, CR}

RECURSIVE StripLeft(_)
StripLeft(s) == IF s # <<>> /\ s[1] \in JsonBlank THEN StripLeft(Tail(s)) ELSE s

RECURSIVE StripRight(_)
StripRight(s) ==
    IF s # <<>> /\ s[Len(s)] \in JsonBlank
        THEN StripRight(SubSeq(s, 1, Len(s) - 1))
        ELSE s

\* text.trim() is empty
IsBlank(s) == StripRight(StripLeft(s)) = <<>>

\* JSON.parse(text): an array of process objects, or a SyntaxError.
JsonParse(text) ==
    LET t == StripRight(StripLeft(text))
        n == Len(t)
    IN  IF n >= 2 /\ t[1] = "[" /\ t[n] = "]"
              /\ \A i \in 2..(n - 1) : t[i] \in ProcTokens
            THEN [kind |-> "array", items |-> SubSeq(t, 2, n - 1)]
            ELSE [kind |-> "invalid", items |-> <<>>]

\* procs.some(proc => name === appName)
AppListed(items) == \E i \in DOMAIN items : ProcName(items[i]) = AppName

\* parsePm2Status(...).online
OnlineCount(items) ==
    Cardinality({ i \in DOMAIN items :
                    ProcName(items[i]) = AppName /\ ProcStatus(items[i]) = "online" })

\* Noise a remote command may write to stderr.
NoisePool == { <<>>, << <<"w", NL>> >> }

\* Results of runSshCommand when ssh could not run or connect.
TransportFailures ==
    { [spawnError |-> TRUE, code |-> 1, stdout |-> <<>>, stderr |-> ErrMessage],
      [spawnError |-> FALSE, code |-> 255, stdout |-> <<>>,
       stderr |-> Capture(pm.outputMode, pm.onStderrLine, <<ErrMessage>>)] }

\* Results of runSshCommand for a remote command that exits with `code`
\* after writing `text` to stdout.
RemoteRuns(code, text) ==
    { [spawnError |-> FALSE, code |-> code,
       stdout |-> Capture(pm.outputMode, pm.onStdoutLine, ch),
       stderr |-> Capture(pm.outputMode, pm.onStderrLine, e)] :
          ch \in Chunkings(text), e \in NoisePool }

Cmd(name, r) ==
    [kind |-> "cmd", name |-> name, ok |-> ~r.spawnError /\ r.code = 0,
     spawned |-> ~r.spawnError]
Call(name) == [kind |-> "call", name |-> name, ok |-> TRUE, spawned |-> TRUE]
Fatal(cause) == [kind |-> "fatal", name |-> cause, ok |-> TRUE, spawned |-> TRUE]
NonFatal(cause) ==
    [kind |-> "nonfatal", name |-> cause, ok |-> TRUE, spawned |-> TRUE]
Delay == [kind |-> "delay", name |-> "1000", ok |-> TRUE, spawned |-> TRUE]

Pm2Reject(cause) == [pm EXCEPT !.pc = "rejected", !.outcome = <<cause>>]
Pm2At(at) == [pm EXCEPT !.pc = at]

pm2Frame == <<mode, codecVars, compareVars, sshVars, churnVars, syncVars,
              quoteVars, deploy, dpc, exitCode, host0, lateVars>>

\* readLocalConfig
Pm2ReadLocalConfig ==
    /\ pm # <<>> /\ pm.pc = "local"
    /\ pm' = IF pm.localCfg = <<>> THEN Pm2Reject("PM2_CONFIG_COMPARE_FAILED")
                                   ELSE Pm2At("test")
    /\ UNCHANGED <<pm2Frame, trace, host>>

\* readRemoteConfig up to the result of `test -f`
Pm2TestConfig ==
    /\ pm # <<>> /\ pm.pc = "test"
    /\ \E exists \in TransportFailures
                        \cup RemoteRuns(IF host.cfg = <<>> THEN 1 ELSE 0, <<>>) :
          /\ trace' = Append(trace, Cmd("pm2:test", exists))
          /\ pm' = IF exists.spawnError THEN Pm2Reject("PM2_SSH_FAILED")
                   ELSE IF exists.code # 0 /\ exists.code # 1
                       THEN Pm2Reject("PM2_CONFIG_COMPARE_FAILED")
                   ELSE IF exists.code = 1 /\ IsBlank(exists.stderr)
                       THEN [pm EXCEPT !.pc = "compare", !.remoteContent = <<>>]
                   ELSE Pm2At("cat")
    /\ UNCHANGED <<pm2Frame, host>>

\* readRemoteConfig from `cat` to its return
Pm2CatConfig ==
    /\ pm # <<>> /\ pm.pc = "cat"
    /\ \E contentResult \in TransportFailures
                         \cup (IF host.cfg = <<>> THEN RemoteRuns(1, <<>>)
                                                  ELSE RemoteRuns(0, host.cfg[1])) :
          /\ trace' = Append(trace, Cmd("pm2:cat", contentResult))
          /\ pm' = IF contentResult.spawnError THEN Pm2Reject("PM2_SSH_FAILED")
                   ELSE IF contentResult.code # 0
                       THEN Pm2Reject("PM2_CONFIG_COMPARE_FAILED")
                   ELSE [pm EXCEPT !.pc = "compare",
                                   !.remoteContent = <<contentResult.stdout>>]
    /\ UNCHANGED <<pm2Frame, host>>

\* `remoteContent === null || remoteContent !== localConfigContent`
configChanged(remoteContent, localConfigContent) ==
    remoteContent = <<>> \/ remoteContent[1] # localConfigContent

\* The comparison, and uploadConfig when the configs differ.
Pm2CompareUpload ==
    /\ pm # <<>> /\ pm.pc = "compare"
    /\ IF configChanged(pm.remoteContent, pm.localCfg[1]) THEN
           \E result \in TransportFailures \cup RemoteRuns(0, <<>>)
                             \cup RemoteRuns(1, <<>>) :
              /\ trace' = Append(trace, Cmd("pm2:upload", result))
              /\ IF result.spawnError \/ result.code # 0 THEN
                     /\ pm' = Pm2Reject("PM2_CONFIG_UPLOAD_FAILED")
                     /\ UNCHANGED host
                 ELSE
                     /\ pm' = [pm EXCEPT !.pc = "ensure", !.configChanged = TRUE]
                     /\ host' = [host EXCEPT !.cfg = <<pm.localCfg[1]>>]
       ELSE
           /\ pm' = [pm EXCEPT !.pc = "ensure", !.configChanged = FALSE]
           /\ UNCHANGED <<trace, host>>
    /\ UNCHANGED pm2Frame

\* Results of `pm2 jlist`: the command failed, or printed a banner line
\* before the list, or printed the list alone.
JlistRuns(listing, procs) ==
    IF listing = "failed" THEN TransportFailures \cup RemoteRuns(1, <<>>)
    ELSE IF listing = "banner" THEN RemoteRuns(0, JlistBanner \o JlistText(procs))
    ELSE RemoteRuns(0, JlistText(procs))

\* ensurePm2AppExists
Pm2EnsureAppExists ==
    /\ pm # <<>> /\ pm.pc = "ensure"
    /\ \E listing \in {"failed", "banner", "list"} :
       \E result \in JlistRuns(listing, host.procs) :
          /\ trace' = Append(trace, Cmd("pm2:jlist", result))
          /\ pm' = [(IF result.spawnError \/ result.code # 0 THEN Pm2At("restart")
                     ELSE IF JsonParse(result.stdout).kind # "array"
                         THEN Pm2At("restart")
                     ELSE IF ~AppListed(JsonParse(result.stdout).items)
                         THEN Pm2Reject("PM2_APP_NAME_NOT_FOUND")
                     ELSE Pm2At("restart"))
                   EXCEPT !.listing = listing]
    /\ UNCHANGED <<pm2Frame, host>>

\* The PM2 process list after a successful start of the app.
Started(procs) == { (procs \ AppTokens) \cup {t} : t \in AppTokens }

\* The check of the delete result also rejecting a non-zero exit.
deleteFailsOnAnyError(deleteResult) ==
    deleteResult.spawnError \/ deleteResult.code # 0

\* `if (deleteResult.spawnError) throw`: the exit code of delete is ignored.
deleteFails(deleteResult) == deleteResult.spawnError

\* restartPm2: the startOrReload command, or the delete of a reboot.
Pm2Restart ==
    /\ pm # <<>> /\ pm.pc = "restart"
    /\ IF pm.restartMode = "startOrReload" THEN
           \E result \in TransportFailures \cup RemoteRuns(0, <<>>)
                             \cup RemoteRuns(1, <<>>) :
              /\ trace' = Append(trace, Cmd("pm2:startOrReload", result))
              /\ pm' = IF result.spawnError THEN Pm2Reject("PM2_SSH_FAILED")
                       ELSE IF result.code # 0 THEN Pm2Reject("PM2_COMMAND_FAILED")
                       ELSE [pm EXCEPT !.pc = "health", !.attempt = 1]
              /\ IF ~result.spawnError /\ result.code = 0
                     THEN host' \in { [host EXCEPT !.procs = q] : q \in Started(host.procs) }
                     ELSE UNCHANGED host
       ELSE
           \E deleteResult \in TransportFailures
                   \cup RemoteRuns(IF host.procs \cap AppTokens = {} THEN 1 ELSE 0, <<>>) :
              /\ trace' = Append(trace, Cmd("pm2:delete", deleteResult))
              /\ pm' = IF deleteFails(deleteResult) THEN Pm2Reject("PM2_SSH_FAILED")
                                                    ELSE Pm2At("start")
              /\ IF ~deleteResult.spawnError /\ deleteResult.code = 0
                     THEN host' = [host EXCEPT !.procs = @ \ AppTokens]
                     ELSE UNCHANGED host
    /\ UNCHANGED pm2Frame

\* restartPm2 in reboot mode: `pm2 start` after the delete.
Pm2StartAfterDelete ==
    /\ pm # <<>> /\ pm.pc = "start"
    /\ \E startResult \in TransportFailures \cup RemoteRuns(0, <<>>)
                             \cup RemoteRuns(1, <<>>) :
          /\ trace' = Append(trace, Cmd("pm2:start", startResult))
          /\ pm' = IF startResult.spawnError THEN Pm2Reject("PM2_SSH_FAILED")
                   ELSE IF startResult.code # 0 THEN Pm2Reject("PM2_COMMAND_FAILED")
                   ELSE [pm EXCEPT !.pc = "health", !.attempt = 1]
          /\ IF ~startResult.spawnError /\ startResult.code = 0
                 THEN host' \in { [host EXCEPT !.procs = q] : q \in Started(host.procs) }
                 ELSE UNCHANGED host
    /\ UNCHANGED pm2Frame

\* `const attempts = 3`
attempts == 3

\* `attempt < attempts`: another attempt follows, after a delay.
MoreAttempts(attempt) == attempt < attempts

\* The process list as the next `pm2 jlist` finds it: an app still starting
\* may have come online.
Settling(procs) ==
    { procs } \cup { (procs \ {"app:stopped"}) \cup {"app:online"} :
                        x \in procs \cap {"app:stopped"} }

\* One iteration of the loop of verifyPM2Health.
Pm2HealthAttempt ==
    /\ pm # <<>> /\ pm.pc = "health"
    /\ \E now \in Settling(host.procs) :
       \E result \in TransportFailures \cup RemoteRuns(0, JlistText(now))
                         \cup RemoteRuns(1, <<>>) :
          /\ host' = [host EXCEPT !.procs = now]
          /\ LET summary == JsonParse(result.stdout)
                 online == OnlineCount(summary.items)
                 seen == IF ~result.spawnError /\ result.code = 0
                             THEN Append(pm.reports, Cardinality(now \cap {"app:online"}))
                             ELSE Append(pm.reports, 0 - 1)
             IN  IF result.spawnError THEN
                     /\ pm' = [Pm2Reject("PM2_SSH_FAILED") EXCEPT !.reports = seen]
                     /\ trace' = Append(trace, Cmd("pm2:health", result))
                 ELSE IF result.code # 0 \/ summary.kind # "array" THEN
                     /\ pm' = [Pm2Reject("PM2_STATUS_QUERY_FAILED")
                                  EXCEPT !.reports = seen]
                     /\ trace' = Append(trace, Cmd("pm2:health", result))
                 ELSE IF online > 0 THEN
                     /\ pm' = [pm EXCEPT !.pc = "returned", !.outcome = <<"ok">>,
                                         !.instanceCount = online, !.reports = seen]
                     /\ trace' = Append(trace, Cmd("pm2:health", result))
                 ELSE IF MoreAttempts(pm.attempt) THEN
                     /\ pm' = [pm EXCEPT !.attempt = @ + 1, !.reports = seen]
                     /\ trace' = trace \o <<Cmd("pm2:health", result), Delay>>
                 ELSE
                     /\ pm' = [Pm2Reject("PM2_HEALTHCHECK_FAILED")
                                  EXCEPT !.reports = seen]
                     /\ trace' = Append(trace, Cmd("pm2:health", result))
    /\ UNCHANGED pm2Frame

\* Local and remote ecosystem files.
ConfigPool == { <<"a">>, <<"a", NL>>, <<"a", CR, NL>> }

OutputModes ==
    { [outputMode |-> "inherit", onStdoutLine |-> FALSE, onStderrLine |-> FALSE],
      [outputMode |-> "silent", onStdoutLine |-> FALSE, onStderrLine |-> FALSE] }
    \cup [outputMode : {"callbacks"}, onStdoutLine : BOOLEAN, onStderrLine : BOOLEAN]

\* PM2 process lists of the remote host: the app registered or not.
ProcsPool == { {}, {"other:online"}, {"app:online"}, {"app:stopped"},
               {"other:online", "app:stopped"} }

\* The options and locals of an updatePM2App call.
Pm2Call(om, restartMode, localCfg) ==
    [pc |-> "local", outputMode |-> om.outputMode,
     onStdoutLine |-> om.onStdoutLine, onStderrLine |-> om.onStderrLine,
     restartMode |-> restartMode, localCfg |-> localCfg,
     remoteContent |-> <<>>, configChanged |-> FALSE, attempt |-> 0,
     instanceCount |-> 0, outcome |-> <<>>,
     listing |-> "none",   \* what the `pm2 jlist` of ensurePm2AppExists printed
     reports |-> <<>>]     \* online instances the host listed, per health attempt

\* updatePM2App called on its own, in any output mode.
InitPm2 ==
    /\ mode = "pm2"
    /\ IdleCodec /\ IdleCompare /\ IdleSsh /\ IdleChurn /\ IdleSync /\ IdleQuote
    /\ IdleLate
    /\ deploy = <<>> /\ dpc = "idle" /\ exitCode = <<>>
    /\ trace = <<>>
    /\ host \in [output : {"old"}, baseline : {"old"},
                 cfg : {<<>>} \cup { <<c>> : c \in ConfigPool }, procs : ProcsPool]
    /\ host0 = host
    /\ \E om \in OutputModes, rm \in {"startOrReload", "reboot"},
          lc \in {<<>>} \cup { <<c>> : c \in ConfigPool } :
          pm = Pm2Call(om, rm, lc)


----------------------------------------------------------------------------
(* cli.ts: deployCommand.run and main. *)

runFrame == <<mode, codecVars, compareVars, sshVars, churnVars, syncVars,
              quoteVars, deploy, host0, lateVars>>

\* handleFatalError logging the error without ending the process.
HandleFatalErrorNoExit(cause, events) ==
    /\ trace' = trace \o events \o <<Fatal(cause)>>
    /\ dpc' = "finishing"
    /\ UNCHANGED exitCode

\* handleFatalError: logFatalError, then process.exit(1).
HandleFatalError(cause, events) ==
    /\ trace' = trace \o events \o <<Fatal(cause)>>
    /\ exitCode' = <<1>>
    /\ dpc' = "exited"

\* The phase ends and run() goes on at `next`.
Advance(events, next) ==
    /\ trace' = trace \o events
    /\ dpc' = next
    /\ UNCHANGED exitCode

\* The phases of run() with build and sync exchanged.
NextPhaseSyncFirst(phase) ==
    CASE phase = "tests" -> "sync"
      [] phase = "sync" -> "build"
      [] phase = "build" -> "pm2"
      [] phase = "pm2" -> "churn"
      [] OTHER -> "finishing"

\* The phase run() awaits after `phase`.
NextPhase(phase) ==
    CASE phase = "tests" -> "build"
      [] phase = "build" -> "sync"
      [] phase = "sync" -> "pm2"
      [] phase = "pm2" -> "churn"
      [] OTHER -> "finishing"

\* selectConfig, applyOverrides, buildDeployArgs, and the churnOnly branch.
ResolveConfig ==
    /\ dpc = "config"
    /\ \/ HandleFatalError("CONFIG", <<>>)
       \/ Advance(<<>>, IF deploy.churnOnly THEN "churnOnly" ELSE "tests")
    /\ UNCHANGED <<runFrame, host, pm>>

\* runTestPhase
RunTestPhase ==
    /\ dpc = "tests"
    /\ IF deploy.skipTests THEN Advance(<<>>, NextPhase("tests"))
       ELSE \/ Advance(<<Call("tests")>>, NextPhase("tests"))
            \/ HandleFatalError("TEST", <<Call("tests")>>)
    /\ UNCHANGED <<runFrame, host, pm>>

\* runBuildPhase
RunBuildPhase ==
    /\ dpc = "build"
    /\ IF deploy.skipBuild THEN Advance(<<>>, NextPhase("build"))
       ELSE \/ Advance(<<Call("build")>>, NextPhase("build"))
            \/ HandleFatalError("BUILD", <<Call("build")>>)
    /\ UNCHANGED <<runFrame, host, pm>>

Ran(name) == [kind |-> "cmd", name |-> name, ok |-> TRUE, spawned |-> TRUE]
Failed(name) == [kind |-> "cmd", name |-> name, ok |-> FALSE, spawned |-> TRUE]

\* The sync target after `mkdir -p`.
MadeDir(output) == IF output = "absent" THEN "empty" ELSE output

\* The rsync command line without the dryRun test.
RsyncCommandNoDryRun(dry) == "rsync"

\* The rsync command line: with --dry-run when dryRun is set.
RsyncCommand(dry) == IF dry THEN "rsync --dry-run" ELSE "rsync"

\* syncBuild: the commands it ran, its error (or "ok") and the sync target
\* it leaves behind.
SyncRuns(dry, output) ==
    { [events |-> <<>>, result |-> "SYNC_NO_LOCAL_OUTPUT_DIR", output |-> output] }
    \cup (IF dry THEN {}
          ELSE { [events |-> <<Failed("mkdir")>>, result |-> "SYNC_SSH_FAILED",
                  output |-> output] })
    \cup { [events |-> (IF dry THEN <<>> ELSE <<Ran("mkdir")>>)
                          \o <<Ran(RsyncCommand(dry))>>,
            result |-> "ok",
            output |-> IF dry THEN output ELSE "new"] }
    \cup { [events |-> (IF dry THEN <<>> ELSE <<Ran("mkdir")>>)
                          \o <<Failed(RsyncCommand(dry))>>,
            result |-> "SYNC_RSYNC_FAILED",
            output |-> o] :
              o \in IF dry THEN {output} ELSE {MadeDir(output), "partial"} }

\* runSyncPhase
RunSyncPhase ==
    /\ dpc = "sync"
    /\ \E run \in SyncRuns(deploy.dryRun, host.output) :
          /\ host' = [host EXCEPT !.output = run.output]
          /\ IF run.result = "ok"
                 THEN Advance(<<Call("sync")>> \o run.events, NextPhase("sync"))
                 ELSE HandleFatalError(run.result, <<Call("sync")>> \o run.events)
    /\ UNCHANGED <<runFrame, pm>>

\* The output mode the phases pass on: inherit when verbose, else callbacks
\* with no-op line callbacks.
PhaseOutputMode ==
    IF deploy.verbose
        THEN [outputMode |-> "inherit", onStdoutLine |-> FALSE, onStderrLine |-> FALSE]
        ELSE [outputMode |-> "callbacks", onStdoutLine |-> TRUE, onStderrLine |-> TRUE]

\* runPm2Phase up to the call of updatePM2App
RunPm2Phase ==
    /\ dpc = "pm2"
    /\ IF deploy.dryRun THEN
           /\ Advance(<<>>, NextPhase("pm2"))
           /\ UNCHANGED pm
       ELSE
           /\ Advance(<<Call("pm2")>>, "pm2 running")
           /\ \E lc \in { <<>>, << <<"a", NL>> >> } :
                 pm' = Pm2Call(PhaseOutputMode, deploy.restartMode, lc)
    /\ UNCHANGED <<runFrame, host>>

\* The catch clause of runPm2Phase treating every error as fatal.
pm2ErrorIsFatalAlways(cause) == TRUE

\* `err.cause === "PM2_APP_NAME_NOT_FOUND"`
pm2ErrorIsFatal(cause) == cause = "PM2_APP_NAME_NOT_FOUND"

\* runPm2Phase from the settlement of updatePM2App
Pm2PhaseEnd ==
    /\ dpc = "pm2 running"
    /\ pm.pc \in {"returned", "rejected"}
    /\ IF pm.pc = "returned" THEN Advance(<<>>, NextPhase("pm2"))
       ELSE IF pm2ErrorIsFatal(pm.outcome[1]) THEN HandleFatalError(pm.outcome[1], <<>>)
       ELSE Advance(<<NonFatal(pm.outcome[1])>>, NextPhase("pm2"))
    /\ UNCHANGED <<runFrame, host, pm>>

\* computeClientChurn: the commands it ran, its error (or "ok"), and whether
\* it wrote the baseline.
ChurnRuns(dry) ==
    { [events |-> <<>>, result |-> "CHURN_NO_CLIENT_DIR", uploaded |-> FALSE],
      [events |-> <<>>, result |-> "CHURN_COMPUTE_FAILED", uploaded |-> FALSE],
      [events |-> <<Failed("churn test")>>,
       result |-> "CHURN_REMOTE_MANIFEST_FETCH_FAILED", uploaded |-> FALSE],
      [events |-> <<Ran("churn test"), Failed("churn cat")>>,
       result |-> "CHURN_REMOTE_MANIFEST_FETCH_FAILED", uploaded |-> FALSE] }
    \cup (IF dry
          THEN { [events |-> <<Ran("churn test"), Ran("churn cat")>>,
                  result |-> "ok", uploaded |-> FALSE] }
          ELSE { [events |-> <<Ran("churn test"), Ran("churn cat"),
                               Ran("churn upload")>>,
                  result |-> "ok", uploaded |-> TRUE],
                 [events |-> <<Ran("churn test"), Ran("churn cat"),
                               Failed("churn upload")>>,
                  result |-> "CHURN_REMOTE_MANIFEST_UPLOAD_FAILED",
                  uploaded |-> FALSE],
                 [events |-> <<Ran("churn test"), Ran("churn cat")>>,
                  result |-> "untyped", uploaded |-> FALSE] })

\* runChurnPhase treating a churn failure as fatal.
runChurnPhaseFatal(run) ==
    IF run.result = "ok"
        THEN Advance(<<Call("churn")>> \o run.events, "finishing")
        ELSE HandleFatalError(run.result, <<Call("churn")>> \o run.events)

\* The try/catch of runChurnPhase around computeClientChurn.
runChurnPhase(run) ==
    IF run.result = "ok"
        THEN Advance(<<Call("churn")>> \o run.events, "finishing")
        ELSE Advance(<<Call("churn")>> \o run.events \o <<NonFatal(run.result)>>,
                     "finishing")

RunChurnPhase ==
    /\ dpc = "churn"
    /\ \E run \in ChurnRuns(deploy.dryRun) :
          /\ host' = IF run.uploaded THEN [host EXCEPT !.baseline = "new"] ELSE host
          /\ runChurnPhase(run)
    /\ UNCHANGED <<runFrame, pm>>

\* runChurnOnlyMode
RunChurnOnlyMode ==
    /\ dpc = "churnOnly"
    /\ \E run \in ChurnRuns(deploy.dryRun) :
          /\ host' = IF run.uploaded THEN [host EXCEPT !.baseline = "new"] ELSE host
          /\ IF run.result = "ok"
                 THEN Advance(<<Call("churn")>> \o run.events, "finishing")
                 ELSE HandleFatalError(run.result, <<Call("churn")>> \o run.events)
    /\ UNCHANGED <<runFrame, pm>>

\* run() returns and main calls process.exit(0).
DeployDone ==
    /\ dpc = "finishing"
    /\ exitCode' = <<0>>
    /\ dpc' = "exited"
    /\ UNCHANGED <<runFrame, trace, host, pm>>

InitDeploy ==
    /\ mode = "deploy"
    /\ IdleCodec /\ IdleCompare /\ IdleSsh /\ IdleChurn /\ IdleSync /\ IdleQuote
    /\ IdleLate
    /\ deploy \in [dryRun : BOOLEAN, skipTests : BOOLEAN, skipBuild : BOOLEAN,
                   churnOnly : BOOLEAN, verbose : BOOLEAN,
                   restartMode : {"startOrReload", "reboot"}]
    /\ dpc = "config"
    /\ exitCode = <<>>
    /\ trace = <<>>
    /\ host \in [output : {"absent", "old"}, baseline : {"old"},
                 cfg : {<<>>, << <<"a", NL>> >>},
                 procs : { {}, {"app:online"} }]
    /\ host0 = host
    /\ pm = <<>>

NextDeploy ==
    \/ ResolveConfig
    \/ RunTestPhase
    \/ RunBuildPhase
    \/ RunSyncPhase
    \/ RunPm2Phase
    \/ Pm2ReadLocalConfig
    \/ Pm2TestConfig
    \/ Pm2CatConfig
    \/ Pm2CompareUpload
    \/ Pm2EnsureAppExists
    \/ Pm2Restart
    \/ Pm2StartAfterDelete
    \/ Pm2HealthAttempt
    \/ Pm2PhaseEnd
    \/ RunChurnPhase
    \/ RunChurnOnlyMode
    \/ DeployDone

InitDeployOrPm2 == InitDeploy \/ InitPm2

SpecDeploy == InitDeployOrPm2 /\ [][NextDeploy]_vars

----------------------------------------------------------------------------
(* Properties of the comparator. *)

OldMap == parseManifest(oldContent)
NewMap == parseManifest(newContent)

AddedPaths == DOMAIN NewMap \ DOMAIN OldMap
RemovedPaths == DOMAIN OldMap \ DOMAIN NewMap
StablePaths == {p \in DOMAIN NewMap \cap DOMAIN OldMap : OldMap[p] = NewMap[p]}
ChangedPaths == {p \in DOMAIN NewMap \cap DOMAIN OldMap : OldMap[p] # NewMap[p]}

\* C1: the file counts balance: stable + changed + added = totalNewFiles and
\* stable + changed + removed = totalOldFiles, the totals being the numbers
\* of distinct valid paths parsed from each text.
C1_FileCountsBalance ==
    metrics # <<>> =>
        LET m == metrics[1]
        IN  /\ m.totalOldFiles = Cardinality(DOMAIN OldMap)
            /\ m.totalNewFiles = Cardinality(DOMAIN NewMap)
            /\ m.stableFiles + m.changedFiles + m.addedFiles = m.totalNewFiles
            /\ m.stableFiles + m.changedFiles + m.removedFiles = m.totalOldFiles

\* A comparison with a changed, an added and a removed path.
C1_Witness ==
    /\ metrics # <<>>
    /\ metrics[1].changedFiles > 0
    /\ metrics[1].addedFiles > 0 /\ metrics[1].removedFiles > 0

\* C2 as stated: stableBytes + changedBytes + removedBytes = totalOldBytes.
C2_OldBytesBalanceAsStated ==
    metrics # <<>> =>
        LET m == metrics[1]
        IN  m.stableBytes + m.changedBytes + m.removedBytes = m.totalOldBytes

\* C2 (amended): changedBytes counts new sizes, so the old total is
\* stableBytes + removedBytes + the OLD sizes of the changed paths; the
\* stated sum exceeds totalOldBytes by the growth of the changed paths.
C2_OldBytesBalance ==
    metrics # <<>> =>
        LET m == metrics[1]
            changedOld == SumValues(OldMap, ChangedPaths, 0)
        IN  /\ m.totalOldBytes = SumValues(OldMap, DOMAIN OldMap, 0)
            /\ m.stableBytes + changedOld + m.removedBytes = m.totalOldBytes
            /\ m.stableBytes + m.changedBytes + m.removedBytes
                  = m.totalOldBytes + (m.changedBytes - changedOld)

\* A comparison with a path that changed size beside a removed one.
C2_Witness ==
    /\ metrics # <<>>
    /\ metrics[1].changedFiles > 0 /\ metrics[1].removedBytes > 0
    /\ metrics[1].changedBytes # SumValues(OldMap, ChangedPaths, 0)

\* C3: stableBytes + changedBytes + addedBytes = totalNewBytes, the sum of
\* all sizes in the new manifest.
C3_NewBytesBalance ==
    metrics # <<>> =>
        LET m == metrics[1]
        IN  /\ m.totalNewBytes = SumValues(NewMap, DOMAIN NewMap, 0)
            /\ m.stableBytes + m.changedBytes + m.addedBytes = m.totalNewBytes

\* A comparison whose new manifest has a changed path and an added one
\* with bytes.
C3_Witness ==
    /\ metrics # <<>>
    /\ metrics[1].changedFiles > 0 /\ metrics[1].addedBytes > 0

\* C4: every new path is counted as exactly one of added / stable / changed
\* and every old-only path as removed; changedBytes sums the new sizes of
\* the changed paths, removedBytes the old sizes of the removed paths.
C4_Classification ==
    metrics # <<>> =>
        LET m == metrics[1]
        IN  /\ m.addedFiles = Cardinality(AddedPaths)
            /\ m.stableFiles = Cardinality(StablePaths)
            /\ m.changedFiles = Cardinality(ChangedPaths)
            /\ m.removedFiles = Cardinality(RemovedPaths)
            /\ m.addedBytes = SumValues(NewMap, AddedPaths, 0)
            /\ m.stableBytes = SumValues(NewMap, StablePaths, 0)
            /\ m.changedBytes = SumValues(NewMap, ChangedPaths, 0)
            /\ m.removedBytes = SumValues(OldMap, RemovedPaths, 0)

\* A comparison where a path grew (new size counted) and another was removed.
C4_Witness ==
    /\ metrics # <<>>
    /\ \E p \in ChangedPaths : NewMap[p] > OldMap[p]
    /\ RemovedPaths # {}

\* x is the exact quotient part * 100 / total.
IsQuotient(x, part, total) ==
    x.kind = "num" /\ x.den # 0 /\ x.num * total = part * 100 * x.den

PercentOk(x, part, total) ==
    /\ x.kind = "num"
    /\ total > 0 => IsQuotient(x, part, total)
    /\ total = 0 => x = IntNum(0)

\* C5: each percentage is numerator * 100 / denominator when the
\* denominator is positive and 0 when it is 0; no percentage is ever the
\* result of a division by zero (NaN or Infinity).
C5_Percentages ==
    metrics # <<>> =>
        LET m == metrics[1]
        IN  /\ PercentOk(m.downloadImpactFilesPercent,
                         m.changedFiles + m.addedFiles, m.totalNewFiles)
            /\ PercentOk(m.cacheReuseFilesPercent, m.stableFiles, m.totalNewFiles)
            /\ PercentOk(m.downloadImpactBytesPercent,
                         m.changedBytes + m.addedBytes, m.totalNewBytes)
            /\ PercentOk(m.cacheReuseBytesPercent, m.stableBytes, m.totalNewBytes)

\* A comparison against a new manifest that has files but no bytes.
C5_Witness ==
    /\ metrics # <<>>
    /\ metrics[1].totalNewFiles > 0 /\ metrics[1].totalNewBytes = 0
    /\ metrics[1].totalOldBytes > 0

----------------------------------------------------------------------------
(* Properties of the codec. *)

\* The manifest (path -> size) the enumerated files stand for.
ManifestOf(fs) ==
    [p \in {fs[i].path : i \in 1..Len(fs)} |->
        (CHOOSE f \in {fs[i] : i \in 1..Len(fs)} : f.path = p).size]

\* C6: parsing the text serialized from a manifest returns that manifest.
C6_RoundTrip ==
    (mode = "build" /\ step = "parsed") => parsed = ManifestOf(files)

LineTokens(line) == SplitWs(Trim(line))
LineBlank(line) == \A i \in 1..Len(line) : line[i] \in WhiteSpace
LinePath(line) == Join(Tail(LineTokens(line)), <<SP>>)
LineSize(line) == Number(LineTokens(line)[1])
LineValid(line) ==
    ~LineBlank(line) /\ LineSize(line).finite /\ LinePath(line) # <<>>

\* C7 as stated: exactly the malformed lines are dropped and every other
\* line's (path, size) entry is in the result.
C7_ParseKeepsEveryValidLine ==
    (mode = "parse" /\ step = "parsed") =>
        LET lines == Split(content, NL)
            valid == {i \in 1..Len(lines) : LineValid(lines[i])}
        IN  /\ DOMAIN parsed = {LinePath(lines[i]) : i \in valid}
            /\ \A i \in valid : parsed[LinePath(lines[i])] = LineSize(lines[i]).val

\* C7 (amended): exactly the malformed lines are dropped; every other
\* line's path is in the result, with the size of the LAST valid line that
\* names the path.
C7_ParseDropsOnlyMalformed ==
    (mode = "parse" /\ step = "parsed") =>
        LET lines == Split(content, NL)
            valid == {i \in 1..Len(lines) : LineValid(lines[i])}
        IN  /\ DOMAIN parsed = {LinePath(lines[i]) : i \in valid}
            /\ \A i \in valid :
                  (\A j \in valid : j > i => LinePath(lines[j]) # LinePath(lines[i]))
                      => parsed[LinePath(lines[i])] = LineSize(lines[i]).val

\* A parsed text with a dropped malformed line beside two valid lines naming
\* the same path.
C7_Witness ==
    /\ mode = "parse" /\ step = "parsed"
    /\ LET lines == Split(content, NL)
       IN  /\ \E i \in 1..Len(lines) : ~LineBlank(lines[i]) /\ ~LineValid(lines[i])
           /\ \E i, j \in 1..Len(lines) :
                 /\ i < j /\ LineValid(lines[i]) /\ LineValid(lines[j])
                 /\ LinePath(lines[i]) = LinePath(lines[j])
                 /\ LineSize(lines[i]) # LineSize(lines[j])

----------------------------------------------------------------------------
(* Properties of the transport and of the baseline fetch. *)

\* C8: the fetch returns `none` only when the existence check ran and exited
\* with status 1 having written no (non-blank) diagnostic output; a check that
\* exits with another non-zero status, or with status 1 and diagnostic
\* output, or whose process could not be spawned, yields `error`.
C8_NoneOnlyWhenAbsent ==
    fetched # <<>> =>
        LET e == existsRun[1]
        IN  /\ fetched[1].kind = "none" =>
                  /\ e.spawned /\ e.exited /\ e.exitCode = 1
                  /\ Trim(e.fullErr) = <<>>
            /\ ( \/ ~e.spawned
                 \/ e.exited /\ e.exitCode \notin {0, 1}
                 \/ e.exited /\ e.exitCode = 1 /\ Trim(e.fullErr) # <<>> )
                  => fetched[1].kind = "error"

\* C9: resolve() is called at most once per invocation, as soon as an error
\* or exit handler has run, and with the result the first of them built.
C9_ResolvesOnce ==
    Running =>
        /\ Len(delivered) <= 1
        /\ built = <<>> => delivered = <<>>
        /\ built # <<>> => delivered = <<built[1]>>
        /\ resolved <=> built # <<>>

\* An invocation whose exit handler ran first and whose error handler ran
\* after it, each building a different result.
C9_Witness ==
    /\ Running
    /\ Len(built) = 2
    /\ built[1].spawnError = <<>> /\ built[2].spawnError # <<>>
    /\ built[1] # built[2]

\* C10: when the existence check and the read both exit with status 0 (and
\* neither child emits an error event), the fetch returns `ok` with the
\* complete standard output of the read command.
C10_ReadReturnsCompleteStdout ==
    ( /\ fetched # <<>> /\ readRun # <<>>
      /\ existsRun[1].exited /\ existsRun[1].exitCode = 0 /\ ~existsRun[1].errorEvent
      /\ readRun[1].exited /\ readRun[1].exitCode = 0 /\ ~readRun[1].errorEvent )
        => /\ fetched[1].kind = "ok"
           /\ fetched[1].content = readRun[1].fullOut


----------------------------------------------------------------------------
(* Properties of computeClientChurn. *)

Issued(command) == \E i \in DOMAIN issued : issued[i] = command

TimesIssued(command) == Cardinality({ i \in DOMAIN issued : issued[i] = command })

Settled == cpc \in {"rejected", "returned"}

\* C11: the upload command is issued only when dryRun is false and only after
\* the fetch and the comparison have succeeded; with dryRun true no upload
\* command is issued at all.
C11_UploadOnlyAfterSuccessAndNotDry ==
    mode = "churn" =>
        /\ Issued("upload") =>
              /\ ~dryRun
              /\ fetched # <<>> /\ fetched[1].kind \in {"ok", "none"}
              /\ metrics # <<>>
              /\ issued[Len(issued)] = "upload"
        /\ dryRun => ~Issued("upload")

C11_Witness ==
    /\ mode = "churn" /\ Issued("upload") /\ cpc = "returned"
    /\ fetched[1].kind = "ok"

\* C12: each remote command is issued at most once per call, and a fetch that
\* ends in error rejects with CHURN_REMOTE_MANIFEST_FETCH_FAILED, without a
\* comparison and without an upload.
C12_NoRetryNoFallback ==
    mode = "churn" =>
        /\ \A command \in {"test", "cat", "upload"} : TimesIssued(command) <= 1
        /\ (fetched # <<>> /\ fetched[1].kind = "error" /\ cpc # "fetch") =>
              /\ outcome = Rejected("CHURN_REMOTE_MANIFEST_FETCH_FAILED")
              /\ metrics = <<>>
              /\ ~Issued("upload")

C12_Witness ==
    /\ mode = "churn" /\ cpc = "rejected"
    /\ fetched # <<>> /\ fetched[1].kind = "error"
    /\ Issued("cat")

\* The upload step of a settled call did not succeed.
UploadFailed ==
    /\ Issued("upload")
    /\ \/ uploadRun = <<>>
       \/ uploadRun[1].result.code # 0
       \/ uploadRun[1].result.spawnError # <<>>

\* C13: a failed upload makes the call reject with
\* CHURN_REMOTE_MANIFEST_UPLOAD_FAILED, and no metrics are returned.
C13_UploadFailureIsTyped ==
    (mode = "churn" /\ Settled /\ UploadFailed) =>
        outcome = Rejected("CHURN_REMOTE_MANIFEST_UPLOAD_FAILED")

\* C14: a missing or non-directory asset root rejects with
\* CHURN_NO_CLIENT_DIR before any traversal and any remote command; an empty
\* directory is no error and gives totalNewFiles = 0.
C14_NoClientDir ==
    mode = "churn" =>
        /\ (root.kind # "dir" /\ cpc # "start") =>
              /\ outcome = Rejected("CHURN_NO_CLIENT_DIR")
              /\ ~traversed
              /\ issued = <<>>
        /\ (root.kind = "dir" /\ ~root.readFails /\ files = <<>> /\ cpc # "start") =>
              /\ content = <<>>
              /\ outcome # Rejected("CHURN_NO_CLIENT_DIR")
              /\ outcome # Rejected("CHURN_COMPUTE_FAILED")
              /\ metrics # <<>> => metrics[1].totalNewFiles = 0

C14_Witness ==
    /\ mode = "churn" /\ root.kind = "file" /\ cpc = "rejected"

\* The error kind of the step at which a rejected call failed.
KindOfFailingStep ==
    IF root.kind # "dir" THEN "CHURN_NO_CLIENT_DIR"
    ELSE IF root.readFails THEN "CHURN_COMPUTE_FAILED"
    ELSE IF ~Issued("upload") THEN "CHURN_REMOTE_MANIFEST_FETCH_FAILED"
    ELSE "CHURN_REMOTE_MANIFEST_UPLOAD_FAILED"

\* C15: every rejection carries the churn error kind of the failing step; no
\* failure escapes untyped.
C15_EveryRejectionTyped ==
    (mode = "churn" /\ cpc = "rejected") =>
        outcome = Rejected(KindOfFailingStep)

\* C16: with a `none` baseline the metrics are those of comparing an empty
\* old manifest with the local one: everything is added, and
\* downloadImpactFilesPercent is 100 when the local manifest is non-empty.
C16_FirstDeploy ==
    (mode = "churn" /\ fetched # <<>> /\ fetched[1].kind = "none"
        /\ metrics # <<>>) =>
        LET m == metrics[1]
        IN  /\ m = compareManifests(<<>>, content)
            /\ m.addedFiles = m.totalNewFiles
            /\ m.totalNewFiles = Len(files)
            /\ m.stableFiles = 0 /\ m.changedFiles = 0 /\ m.removedFiles = 0
            /\ m.totalNewFiles > 0 => m.downloadImpactFilesPercent = IntNum(100)

C16_Witness ==
    /\ mode = "churn" /\ fetched # <<>> /\ fetched[1].kind = "none"
    /\ metrics # <<>> /\ metrics[1].totalNewFiles = 2

\* C17: a dry call issues no upload and leaves the baseline alone, and the
\* non-dry call made after it returns the metrics the dry call returned.
C17_DryRunThenRealRunSameMetrics ==
    mode = "churn" =>
        /\ dryRun => ~Issued("upload")
        /\ (prior # <<>> /\ prior[1].dryRun /\ cpc = "returned") =>
              outcome[1].metrics = prior[1].outcome.metrics

----------------------------------------------------------------------------
(* Identical manifests. *)

\* C19: comparing a manifest with itself gives stableFiles = |m|, no changed,
\* added or removed file, downloadImpactFilesPercent = 0, and
\* cacheReuseFilesPercent = 100 when |m| > 0.
C19_IdenticalCompare ==
    (mode = "compare" /\ metrics # <<>> /\ oldContent = newContent) =>
        LET m == metrics[1]
            n == Cardinality(DOMAIN parseManifest(newContent))
        IN  /\ m.stableFiles = n
            /\ m.changedFiles = 0 /\ m.addedFiles = 0 /\ m.removedFiles = 0
            /\ m.downloadImpactFilesPercent = IntNum(0)
            /\ n > 0 => m.cacheReuseFilesPercent = IntNum(100)

C19_Witness ==
    /\ mode = "compare" /\ metrics # <<>> /\ oldContent = newContent
    /\ metrics[1].stableFiles = 2


----------------------------------------------------------------------------
(* The baseline file and the sync step. *)

BaselineFile == ResolveRemote(buildRemoteManifestPath(remoteDir))

SyncTarget == ResolveRemote(remoteTarget(remoteDir))

Uploaded == \E i \in DOMAIN ops : ops[i].op = "upload"

----------------------------------------------------------------------------
(* Reference reading of a command line by a POSIX shell: the words of a *)
(* simple command (quote removal done), and whether the line is plain,  *)
(* that is, free of operators, expansions and unterminated quotes.      *)

ShellBlank == {SP, TAB}

ShellActive == {NL, ";", "&", "|", "<", ">", "(", ")", "$", BACKTICK, "*", "?",
                "[", "#", "~", "{", "}", "!", "="}

EndWord(st) ==
    IF st.started
        THEN [st EXCEPT !.words = Append(@, st.cur), !.cur = <<>>, !.started = FALSE]
        ELSE st

Take(st, c) == [st EXCEPT !.cur = Append(@, c), !.started = TRUE]

RECURSIVE ShellScan(_, _, _)
ShellScan(s, i, st) ==
    IF i > Len(s) THEN
        [words |-> EndWord(st).words, plain |-> st.plain /\ st.q = "none"]
    ELSE
        LET c == s[i]
            more == i < Len(s)
        IN  IF st.q = "single" THEN
                IF c = QUOTE THEN ShellScan(s, i + 1, [st EXCEPT !.q = "none"])
                ELSE ShellScan(s, i + 1, Take(st, c))
            ELSE IF st.q = "double" THEN
                IF c = DQUOTE THEN ShellScan(s, i + 1, [st EXCEPT !.q = "none"])
                ELSE IF c = BACKSLASH /\ more
                        /\ s[i + 1] \in {"$", BACKTICK, DQUOTE, BACKSLASH} THEN
                    ShellScan(s, i + 2, Take(st, s[i + 1]))
                ELSE IF c \in {"$", BACKTICK} THEN
                    ShellScan(s, i + 1, [st EXCEPT !.plain = FALSE])
                ELSE ShellScan(s, i + 1, Take(st, c))
            ELSE
                IF c \in ShellBlank THEN ShellScan(s, i + 1, EndWord(st))
                ELSE IF c = QUOTE THEN
                    ShellScan(s, i + 1, [st EXCEPT !.q = "single", !.started = TRUE])
                ELSE IF c = DQUOTE THEN
                    ShellScan(s, i + 1, [st EXCEPT !.q = "double", !.started = TRUE])
                ELSE IF c = BACKSLASH THEN
                    IF more THEN ShellScan(s, i + 2, Take(st, s[i + 1]))
                    ELSE ShellScan(s, i + 1, Take(st, c))
                ELSE IF c \in ShellActive THEN
                    ShellScan(s, i + 1, [EndWord(st) EXCEPT !.plain = FALSE])
                ELSE ShellScan(s, i + 1, Take(st, c))

ShellWords(s) ==
    ShellScan(s, 1, [q |-> "none", cur |-> <<>>, started |-> FALSE,
                     words |-> <<>>, plain |-> TRUE])

TestF == <<"t", "e", "s", "t", SP, "-", "f", SP>>

\* C20: the shell reads shellQuoteSingle(v) as exactly one word with value v,
\* alone and interpolated into a command, with no operator or expansion.
C20_QuoteRoundTrip ==
    (mode = "quote" /\ quoted # <<>>) =>
        /\ ShellWords(quoted[1]) = [words |-> <<raw>>, plain |-> TRUE]
        /\ ShellWords(TestF \o quoted[1])
              = [words |-> << <<"t", "e", "s", "t">>, <<"-", "f">>, raw >>,
                 plain |-> TRUE]

C20_Witness ==
    /\ mode = "quote"
    /\ raw = <<"a", QUOTE, SP>>
    /\ quoted = << <<QUOTE, "a", QUOTE, DQUOTE, QUOTE, DQUOTE, QUOTE, SP, QUOTE>> >>

(***************************************************************************)
(* Properties of the deploy run and of the PM2 update.                     *)
(***************************************************************************)

\* The phases called so far, in the order of their calls.
RECURSIVE CallNames(_)
CallNames(events) ==
    IF events = <<>> THEN <<>>
    ELSE IF events[1].kind = "call" THEN <<events[1].name>> \o CallNames(Tail(events))
    ELSE CallNames(Tail(events))

Called(name) == \E i \in 1..Len(trace) : trace[i] = Call(name)

CmdIssued(name) ==
    \E i \in 1..Len(trace) : trace[i].kind = "cmd" /\ trace[i].name = name

Logged(kind, cause) ==
    \E i \in 1..Len(trace) : trace[i].kind = kind /\ trace[i].name = cause

IsPrefixOf(a, b) == Len(a) <= Len(b) /\ SubSeq(b, 1, Len(a)) = a

\* The phases a run with the given flags calls when nothing fails.
PhasesOf(d) ==
    IF d.churnOnly THEN <<"churn">>
    ELSE (IF d.skipTests THEN <<>> ELSE <<"tests">>)
         \o (IF d.skipBuild THEN <<>> ELSE <<"build">>)
         \o <<"sync">>
         \o (IF d.dryRun THEN <<>> ELSE <<"pm2">>)
         \o <<"churn">>

Pm2Settled == pm # <<>> /\ pm.pc \in {"returned", "rejected"}

ExitedWith(n) == dpc = "exited" /\ exitCode = <<n>>

\* C21: a full deploy calls tests, build, sync, PM2 update and churn in that
\* order, skipped phases left out, each only after the previous one has
\* completed; a churn-only run calls churn alone.
C21_PhaseOrder ==
    mode = "deploy" /\ dpc # "config" =>
        /\ IsPrefixOf(CallNames(trace), PhasesOf(deploy))
        /\ ExitedWith(0) => CallNames(trace) = PhasesOf(deploy)
        /\ Called("churn") /\ pm # <<>> => Pm2Settled
        /\ dpc = "pm2 running" => trace[Len(trace)].kind \in {"call", "cmd", "delay"}
                                   /\ ~Called("churn")

C21_Witness ==
    /\ mode = "deploy" /\ ExitedWith(0)
    /\ CallNames(trace) = <<"tests", "build", "sync", "pm2", "churn">>

C21_WitnessSkips ==
    /\ mode = "deploy" /\ ExitedWith(0)
    /\ deploy.skipTests /\ deploy.skipBuild /\ ~deploy.dryRun /\ ~deploy.churnOnly
    /\ CallNames(trace) = <<"sync", "pm2", "churn">>

FatalPhaseCauses ==
    {"CONFIG", "TEST", "BUILD", "SYNC_NO_LOCAL_OUTPUT_DIR", "SYNC_SSH_FAILED",
     "SYNC_RSYNC_FAILED"}

\* The phases that have been called when the given fatal phase fails.
PhasesUpTo(d, cause) ==
    IF cause = "CONFIG" THEN <<>>
    ELSE IF cause = "TEST" THEN <<"tests">>
    ELSE (IF d.skipTests THEN <<>> ELSE <<"tests">>)
         \o (IF cause = "BUILD" THEN <<"build">>
             ELSE (IF d.skipBuild THEN <<>> ELSE <<"build">>) \o <<"sync">>)

\* C22: a failure of configuration, tests, build or sync ends the run with
\* exit code 1, and nothing is called or issued after the failure.
C22_FatalPhases ==
    mode = "deploy" =>
        \A i \in 1..Len(trace) :
            trace[i].kind = "fatal" /\ trace[i].name \in FatalPhaseCauses =>
                /\ i = Len(trace)
                /\ ExitedWith(1)
                /\ CallNames(trace) = PhasesUpTo(deploy, trace[i].name)
                /\ pm = <<>>
                /\ \A j \in 1..Len(trace) :
                       trace[j].kind = "cmd" =>
                           trace[j].name \in {"mkdir", "rsync", "rsync --dry-run"}

C22_Witness ==
    /\ mode = "deploy" /\ ExitedWith(1)
    /\ Logged("fatal", "BUILD") /\ CallNames(trace) = <<"tests", "build">>

C22_WitnessSync ==
    /\ mode = "deploy" /\ ExitedWith(1)
    /\ Logged("fatal", "SYNC_RSYNC_FAILED")

Pm2Causes ==
    {"PM2_CONFIG_COMPARE_FAILED", "PM2_CONFIG_UPLOAD_FAILED", "PM2_SSH_FAILED",
     "PM2_COMMAND_FAILED", "PM2_STATUS_QUERY_FAILED", "PM2_HEALTHCHECK_FAILED",
     "PM2_APP_NAME_NOT_FOUND"}

\* The PM2 update of a full deploy has failed and runPm2Phase has handled it.
Pm2PhaseFailed ==
    /\ mode = "deploy" /\ pm # <<>> /\ pm.pc = "rejected"
    /\ dpc # "pm2 running"

\* The run goes on after a PM2 failure: the error is logged as non-fatal,
\* churn follows, and the run exits with code 0.
Pm2FailureNonFatal ==
    /\ pm.outcome[1] \in Pm2Causes
    /\ Logged("nonfatal", pm.outcome[1]) /\ ~Logged("fatal", pm.outcome[1])
    /\ dpc \in {"churn", "finishing", "exited"}
    /\ dpc # "churn" => Called("churn")
    /\ dpc = "exited" => exitCode = <<0>>

ListedWithoutApp ==
    /\ pm # <<>> /\ pm.listing = "list"
    /\ host0.procs \cap AppTokens = {}

RestartIssued ==
    CmdIssued("pm2:startOrReload") \/ CmdIssued("pm2:delete") \/ CmdIssued("pm2:start")

\* C24: when pm2 jlist succeeds and lists no process named appName,
\* updatePM2App rejects with PM2_APP_NAME_NOT_FOUND before any restart
\* command; the orchestrator then exits with code 1 without running churn.
C24_MissingAppRejectedBeforeRestart ==
    /\ ListedWithoutApp =>
           /\ pm.pc = "rejected" /\ pm.outcome = <<"PM2_APP_NAME_NOT_FOUND">>
           /\ ~RestartIssued
    /\ Pm2PhaseFailed /\ pm.outcome = <<"PM2_APP_NAME_NOT_FOUND">> =>
           /\ ExitedWith(1) /\ Logged("fatal", "PM2_APP_NAME_NOT_FOUND")
           /\ ~Called("churn")

\* What the code keeps of C24: outside outputMode "silent" a list without the
\* app is rejected before any restart, and the orchestrator exits with code 1.
C24_ParsedListWithoutApp ==
    /\ ListedWithoutApp /\ pm.outputMode # "silent" =>
           /\ pm.pc = "rejected" /\ pm.outcome = <<"PM2_APP_NAME_NOT_FOUND">>
           /\ ~RestartIssued
    /\ Pm2PhaseFailed /\ pm.outcome = <<"PM2_APP_NAME_NOT_FOUND">> =>
           /\ ExitedWith(1) /\ Logged("fatal", "PM2_APP_NAME_NOT_FOUND")
           /\ ~Called("churn")

ChurnCauses ==
    {"CHURN_NO_CLIENT_DIR", "CHURN_REMOTE_MANIFEST_FETCH_FAILED",
     "CHURN_COMPUTE_FAILED", "CHURN_REMOTE_MANIFEST_UPLOAD_FAILED", "untyped"}

\* C25: a computeClientChurn failure in a full deploy is logged as non-fatal
\* and the run still exits with code 0; in churn-only mode the same failure
\* is fatal and the run exits with code 1.
C25_ChurnFailure ==
    mode = "deploy" =>
        \A i \in 1..Len(trace) :
            trace[i].kind \in {"fatal", "nonfatal"} /\ trace[i].name \in ChurnCauses =>
                IF deploy.churnOnly
                    THEN trace[i].kind = "fatal" /\ ExitedWith(1)
                    ELSE /\ trace[i].kind = "nonfatal"
                         /\ dpc \in {"finishing", "exited"}
                         /\ dpc = "exited" => exitCode = <<0>>

C25_Witness ==
    /\ mode = "deploy" /\ ~deploy.churnOnly /\ ExitedWith(0)
    /\ Logged("nonfatal", "CHURN_REMOTE_MANIFEST_FETCH_FAILED")

C25_WitnessChurnOnly ==
    /\ mode = "deploy" /\ deploy.churnOnly /\ ExitedWith(1)
    /\ Logged("fatal", "CHURN_REMOTE_MANIFEST_FETCH_FAILED")

\* The commands of the model that only read on the remote host.
ReadOnlyCommands == {"rsync --dry-run", "churn test", "churn cat"}

\* C26: with dryRun no phase issues a command that modifies the remote
\* host: no remote mkdir, rsync only with --dry-run, no PM2 update, no
\* baseline upload; the remote host stays as it was.
C26_DryRunModifiesNothing ==
    mode = "deploy" /\ deploy.dryRun =>
        /\ \A i \in 1..Len(trace) :
               trace[i].kind = "cmd" => trace[i].name \in ReadOnlyCommands
        /\ ~Called("pm2") /\ pm = <<>>
        /\ host = host0

C26_Witness ==
    /\ mode = "deploy" /\ deploy.dryRun /\ ~deploy.churnOnly /\ ExitedWith(0)
    /\ CmdIssued("rsync --dry-run") /\ CmdIssued("churn cat")
    /\ Called("sync") /\ Called("churn")

SyncCauses == {"SYNC_NO_LOCAL_OUTPUT_DIR", "SYNC_SSH_FAILED", "SYNC_RSYNC_FAILED"}

SyncFailed ==
    mode = "deploy" /\ \E c \in SyncCauses : Logged("fatal", c)

\* C27: when the sync phase fails with a SYNC_* error the remote host is as
\* it was before the deploy, and the PM2 and churn phases are skipped.
C27_SyncFailureLeavesServer ==
    SyncFailed =>
        /\ host = host0
        /\ ~Called("pm2") /\ ~Called("churn") /\ pm = <<>>

\* What the code keeps of C27: after a SYNC_* failure PM2 and churn are
\* skipped, and a failure before rsync has started leaves the host as it was
\* unless the remote mkdir has created the directory.
C27_SyncFailureSkipsLaterPhases ==
    SyncFailed =>
        /\ ~Called("pm2") /\ ~Called("churn") /\ pm = <<>>
        /\ host.baseline = host0.baseline /\ host.cfg = host0.cfg
        /\ host.procs = host0.procs
        /\ Logged("fatal", "SYNC_NO_LOCAL_OUTPUT_DIR") => host = host0

\* updatePM2App has got past the comparison of the two config files.
Compared ==
    /\ pm # <<>>
    /\ \/ pm.pc \in {"ensure", "restart", "start", "health", "returned"}
       \/ CmdIssued("pm2:upload") \/ CmdIssued("pm2:jlist")

\* The remote ecosystem file was missing or not literally equal to the local
\* one when updatePM2App was called.
RemoteConfigDiffers == host0.cfg = <<>> \/ host0.cfg[1] # pm.localCfg[1]

\* C28: updatePM2App issues the config upload if and only if the remote
\* ecosystem file is missing or not literally equal to the local one, and
\* returns configChanged accordingly, in every outputMode.
C28_UploadIffConfigDiffers ==
    Compared =>
        /\ CmdIssued("pm2:upload") <=> RemoteConfigDiffers
        /\ pm.pc = "returned" => (pm.configChanged <=> RemoteConfigDiffers)

\* What the code keeps of C28: the equivalence holds with outputMode inherit.
C28_UploadIffConfigDiffersInherit ==
    Compared /\ pm.outputMode = "inherit" =>
        /\ CmdIssued("pm2:upload") <=> RemoteConfigDiffers
        /\ pm.pc = "returned" => (pm.configChanged <=> RemoteConfigDiffers)

C28_HoldsCallbacksNoLineCallback ==
    Compared /\ pm.outputMode = "callbacks" /\ ~pm.onStdoutLine =>
        (CmdIssued("pm2:upload") <=> RemoteConfigDiffers)

RECURSIVE CountEvents(_, _, _)
CountEvents(events, kind, name) ==
    IF events = <<>> THEN 0
    ELSE (IF events[1].kind = kind /\ events[1].name = name THEN 1 ELSE 0)
         + CountEvents(Tail(events), kind, name)

IsHealthRun(e) == e.kind = "cmd" /\ e.name = "pm2:health"

\* The health check and what the host listed at each of its attempts: the
\* number of online instances of appName, or -1 when pm2 jlist failed.
HealthProperty ==
    /\ Len(pm.reports) = CountEvents(trace, "cmd", "pm2:health")
    /\ Len(pm.reports) <= 3
    /\ \A i \in 1..Len(trace) :
           trace[i] = Delay =>
               /\ i > 1 /\ IsHealthRun(trace[i - 1])
               /\ IF i = Len(trace) THEN pm.pc = "health"
                                    ELSE IsHealthRun(trace[i + 1])
    /\ \A k \in 1..Len(pm.reports) :
           pm.reports[k] > 0 =>
               /\ k = Len(pm.reports)
               /\ pm.pc = "returned" /\ pm.instanceCount = pm.reports[k]
    /\ pm.pc = "returned" => pm.reports # <<>> /\ pm.reports[Len(pm.reports)] > 0
    /\ pm.outcome = <<"PM2_HEALTHCHECK_FAILED">> => pm.reports = <<0, 0, 0>>

\* C29: the health check runs pm2 jlist at most 3 times, returns the online
\* count at the first attempt that reports an online instance of appName,
\* waits only between attempts, and throws PM2_HEALTHCHECK_FAILED only after
\* three attempts that each reported zero online instances.
C29_HealthCheck ==
    pm # <<>> => HealthProperty

\* What the code keeps of C29: outside outputMode "silent" the health check
\* behaves as stated.
C29_HealthCheckWithCapture ==
    pm # <<>> /\ pm.outputMode # "silent" => HealthProperty

C29_ReachedThirdAttempt ==
    /\ pm # <<>> /\ pm.outputMode # "silent"
    /\ pm.pc = "returned" /\ pm.reports = <<0, 0, 1>>
    /\ CountEvents(trace, "delay", "1000") = 2

C29_ReachedHealthcheckFailed ==
    pm # <<>> /\ pm.outcome = <<"PM2_HEALTHCHECK_FAILED">>

\* The app is not registered with PM2 when updatePM2App is called.
Unregistered == pm # <<>> /\ host0.procs \cap AppTokens = {}

\* A delete that ran on the remote host and exited non-zero.
IsFailedDelete(e) ==
    e.kind = "cmd" /\ e.name = "pm2:delete" /\ ~e.ok /\ e.spawned

\* In reboot mode a delete that exits non-zero is followed by pm2 start.
DeleteTolerated ==
    \A i \in 1..Len(trace) :
        IsFailedDelete(trace[i]) =>
            /\ pm.outcome # <<"PM2_SSH_FAILED">> \/ CmdIssued("pm2:start")
            /\ IF i = Len(trace) THEN pm.pc = "start"
                                 ELSE trace[i + 1].kind = "cmd"
                                      /\ trace[i + 1].name = "pm2:start"

C30_WitnessStartOrReload ==
    /\ Unregistered /\ pm.restartMode = "startOrReload"
    /\ CmdIssued("pm2:startOrReload")
    /\ pm.pc = "returned" /\ pm.instanceCount > 0

----------------------------------------------------------------------------
(* config.ts: the profile cache behind listProfiles and resolveProfile. *)

MaxCalls == 3

\* A profile as far as the module looks at it: its name, and whether its
\* required string fields pass requireString.
Profile(name, fieldsOk) == [name |-> name, fieldsOk |-> fieldsOk]

\* Arrays a profiles.json may hold: empty, one or two profiles, a profile
\* with a missing field, a repeated name.
ProfileArrays ==
    { <<>>,
      <<Profile("a", TRUE)>>,
      <<Profile("a", FALSE)>>,
      <<Profile("a", TRUE), Profile("b", TRUE)>>,
      <<Profile("a", TRUE), Profile("a", FALSE)>> }

\* What profilesLoader() does: throws, or returns something that is not an
\* array, or returns an array of profiles.
LoaderResults ==
    { [kind |-> "throws", isArray |-> FALSE, items |-> <<>>],
      [kind |-> "value", isArray |-> FALSE, items |-> <<>>] }
    \cup { [kind |-> "value", isArray |-> TRUE, items |-> ps] :
              ps \in ProfileArrays }

\* ensureUniqueProfileNames: TRUE when it returns, FALSE when it throws.
ensureUniqueProfileNames(profiles) ==
    \A i, j \in 1..Len(profiles) : i < j => profiles[i].name # profiles[j].name

\* getProfiles storing the loaded array before the duplicate check.
getProfilesCacheBeforeCheck(source, loaded) ==
    IF source # <<>> THEN
        [invoked |-> FALSE, cache |-> source,
         threw |-> IF source[1] = <<>> THEN <<"CONFIG_PROFILE_FILE_NOT_FOUND">>
                                       ELSE <<>>]
    ELSE IF loaded.kind = "throws" THEN
        [invoked |-> TRUE, cache |-> <<>>,
         threw |-> <<"CONFIG_PROFILE_FILE_NOT_FOUND">>]
    ELSE IF ~loaded.isArray \/ loaded.items = <<>> THEN
        [invoked |-> TRUE, cache |-> <<>>,
         threw |-> <<"CONFIG_PROFILE_FILE_NOT_FOUND">>]
    ELSE IF ~ensureUniqueProfileNames(loaded.items) THEN
        [invoked |-> TRUE, cache |-> <<loaded.items>>,
         threw |-> <<"CONFIG_DUPLICATE_PROFILE">>]
    ELSE [invoked |-> TRUE, cache |-> <<loaded.items>>, threw |-> <<>>]

\* getProfiles: `source` is profilesSource, `loaded` what profilesLoader()
\* does if it is invoked.  Gives whether the loader was invoked, the value
\* of profilesSource afterwards, and the error thrown, if any.
getProfiles(source, loaded) ==
    IF source # <<>> THEN
        [invoked |-> FALSE, cache |-> source,
         threw |-> IF source[1] = <<>> THEN <<"CONFIG_PROFILE_FILE_NOT_FOUND">>
                                       ELSE <<>>]
    ELSE IF loaded.kind = "throws" THEN
        [invoked |-> TRUE, cache |-> <<>>,
         threw |-> <<"CONFIG_PROFILE_FILE_NOT_FOUND">>]
    ELSE IF ~loaded.isArray \/ loaded.items = <<>> THEN
        [invoked |-> TRUE, cache |-> <<>>,
         threw |-> <<"CONFIG_PROFILE_FILE_NOT_FOUND">>]
    ELSE IF ~ensureUniqueProfileNames(loaded.items) THEN
        [invoked |-> TRUE, cache |-> <<>>,
         threw |-> <<"CONFIG_DUPLICATE_PROFILE">>]
    ELSE [invoked |-> TRUE, cache |-> <<loaded.items>>, threw |-> <<>>]

\* The loader results a call may meet: none is drawn when the cache is set.
LoaderMeets ==
    IF profilesSource # <<>> THEN { [kind |-> "unused", isArray |-> FALSE,
                                     items |-> <<>>] }
                             ELSE LoaderResults

configFrame == <<mode, codecVars, compareVars, sshVars, churnVars, syncVars,
                 quoteVars, deployVars, walk, bld, printed>>

\* listProfiles()
ListProfiles ==
    /\ mode = "config" /\ Len(calls) < MaxCalls
    /\ \E loaded \in LoaderMeets :
          LET g == getProfiles(profilesSource, loaded)
          IN  /\ profilesSource' = g.cache
              /\ calls' = Append(calls,
                     [op |-> "listProfiles", invoked |-> g.invoked,
                      loaded |-> loaded, threw |-> g.threw,
                      result |-> IF g.threw # <<>> THEN <<>>
                                 ELSE [i \in 1..Len(g.cache[1]) |->
                                          g.cache[1][i].name]])
    /\ UNCHANGED configFrame

\* resolveProfile(name)
ResolveProfile ==
    /\ mode = "config" /\ Len(calls) < MaxCalls
    /\ \E loaded \in LoaderMeets, name \in {"a", "c"} :
          LET g == getProfiles(profilesSource, loaded)
              found == IF g.threw # <<>> THEN <<>>
                       ELSE SelectSeq(g.cache[1], LAMBDA pr : pr.name = name)
              threw == IF g.threw # <<>> THEN g.threw
                       ELSE IF found = <<>> THEN <<"CONFIG_PROFILE_NOT_FOUND">>
                       ELSE IF ~found[1].fieldsOk THEN <<"CONFIG_PROFILE_INVALID">>
                       ELSE <<>>
          IN  /\ profilesSource' = g.cache
              /\ calls' = Append(calls,
                     [op |-> "resolveProfile", invoked |-> g.invoked,
                      loaded |-> loaded, threw |-> threw,
                      result |-> IF threw # <<>> THEN <<>> ELSE <<name>>])
    /\ UNCHANGED configFrame

InitConfig ==
    /\ mode = "config"
    /\ IdleCodec /\ IdleCompare /\ IdleSsh /\ IdleChurn /\ IdleSync /\ IdleQuote
    /\ IdleDeploy
    /\ profilesSource = <<>> /\ calls = <<>> /\ walk = <<>> /\ bld = <<>>
    /\ printed = <<>>

NextConfig == ListProfiles \/ ResolveProfile

SpecConfig == InitConfig /\ [][NextConfig]_vars

\* A load that getProfiles accepts: a non-empty array without duplicate
\* names.
GoodLoad(call) ==
    /\ call.invoked /\ call.loaded.kind = "value" /\ call.loaded.isArray
    /\ call.loaded.items # <<>>
    /\ \A i, j \in 1..Len(call.loaded.items) :
           i # j => call.loaded.items[i].name # call.loaded.items[j].name

\* C31: across any sequence of listProfiles and resolveProfile calls the
\* loader is not invoked after its first successful load, whose array is
\* cached, and is invoked by every call before that: a failed load caches
\* nothing.
C31_LoaderInvokedUntilFirstGoodLoad ==
    mode = "config" =>
        /\ \A i \in 1..Len(calls) :
               calls[i].invoked <=> ~(\E j \in 1..(i - 1) : GoodLoad(calls[j]))
        /\ IF \E j \in 1..Len(calls) : GoodLoad(calls[j])
               THEN \E j \in 1..Len(calls) :
                       /\ GoodLoad(calls[j])
                       /\ profilesSource = <<calls[j].loaded.items>>
               ELSE profilesSource = <<>>

C31_Witness ==
    /\ mode = "config" /\ Len(calls) = 3
    /\ calls[1].invoked /\ calls[1].threw = <<"CONFIG_DUPLICATE_PROFILE">>
    /\ GoodLoad(calls[2])
    /\ ~calls[3].invoked /\ calls[3].threw = <<>>

----------------------------------------------------------------------------
(* Properties of the baseline fetch and of the manifest builder. *)

\* C32: during a baseline fetch the read command is issued only after the
\* existence check has completed with exit status 0; the two never run
\* concurrently, and no read is issued when the check reports the file
\* absent or fails.
C32_ReadOnlyAfterCheckExitedZero ==
    mode = "fetch" =>
        /\ pc = "exists" => issued = <<"test">>
        /\ Issued("cat") =>
               /\ issued = <<"test", "cat">>
               /\ existsRun # <<>>
               /\ existsRun[1].exited /\ existsRun[1].exitCode = 0
               /\ existsRun[1].result.code = 0
               /\ existsRun[1].result.spawnError = <<>>
        /\ existsRun # <<>> /\ ~(existsRun[1].exited /\ existsRun[1].exitCode = 0)
               => ~Issued("cat") /\ pc = "done"
        /\ fetched # <<>> /\ fetched[1].kind = "none" => ~Issued("cat")

C32_Witness ==
    /\ mode = "fetch" /\ pc = "done"
    /\ issued = <<"test", "cat">>
    /\ existsRun[1].exited /\ existsRun[1].exitCode = 0
    /\ fetched[1].kind = "ok"

C32_WitnessAbsent ==
    /\ mode = "fetch" /\ pc = "done"
    /\ issued = <<"test">> /\ existsRun[1].exitCode = 1
    /\ fetched[1].kind = "none"

\* The lines of a manifest text: the text split at newlines, without the
\* empty piece after a final newline.
ManifestLines(text) ==
    LET ls == Split(text, NL)
    IN  IF ls[Len(ls)] = <<>> THEN SubSeq(ls, 1, Len(ls) - 1) ELSE ls

PairsOf(fs) == { fs[i] : i \in 1..Len(fs) }

\* C33: the local manifest text depends only on the set of (path, size)
\* pairs: whatever the enumeration order, its lines are one per file, sorted
\* as strings, joined by newline, with a final newline iff a file exists.
C33_ManifestIndependentOfOrder ==
    mode = "build" /\ step \notin {"idle", "files"} =>
        /\ \A other \in FileLists :
               PairsOf(other) = PairsOf(files)
                   => buildLocalManifestContent(other) = content
        /\ LET ls == ManifestLines(content)
           IN  /\ Len(ls) = Len(files)
               /\ \A i \in 1..(Len(ls) - 1) : ~StrLess(ls[i + 1], ls[i])
               /\ { ls[i] : i \in 1..Len(ls) }
                      = { ManifestEntry(f) : f \in PairsOf(files) }
        /\ (content # <<>> /\ content[Len(content)] = NL) <=> files # <<>>
        /\ files = <<>> => content = <<>>

C33_Witness ==
    /\ mode = "build" /\ step \notin {"idle", "files"} /\ Len(files) = 2
    /\ StrLess(ManifestEntry(files[2]), ManifestEntry(files[1]))
    /\ content = ManifestEntry(files[2]) \o <<NL>> \o ManifestEntry(files[1]) \o <<NL>>

----------------------------------------------------------------------------
(* churnFormat.ts: collectFiles, the walk over the asset tree. *)

MaxDepth == 5

\* A Dirent of fs.readdir(dir, { withFileTypes: true }).  For a directory,
\* `to` is the directory it names; for a symbolic link, the directory the
\* link points at.
Dirent(name, kind, to) == [name |-> name, kind |-> kind, to |-> to]

\* The ways a directory's content is put together from optional entries.
Choices(options) ==
    { es \in SeqsUpTo(options, 3) :
         \A i, j \in 1..Len(es) : i # j => es[i].name # es[j].name }

\* Asset trees: the root "r" may hold a file, a link to itself and the
\* directory "d"; "d" a file, a link to an ancestor and the directory "e";
\* "e" a file and a link to an ancestor.  Entries come in any order.
TreePool ==
    { [r |-> er, d |-> ed, e |-> ee] :
        er \in Choices({Dirent("f", "file", "-"), Dirent("l", "link", "r"),
                        Dirent("d", "dir", "d")}),
        ed \in { es \in SeqsUpTo({Dirent("g", "file", "-"), Dirent("m", "link", "r"),
                                  Dirent("e", "dir", "e")}, 2) :
                     \A i, j \in 1..Len(es) : i # j => es[i].name # es[j].name },
        ee \in { <<>>, <<Dirent("h", "file", "-")>>,
                 <<Dirent("n", "link", "d"), Dirent("h", "file", "-")>> } }

\* entry.isDirectory() as fs.stat would answer it: following the link.
entryIsDirectoryFollowingLinks(entry) == entry.kind \in {"dir", "link"}

\* entry.isDirectory() of a Dirent: false for a symbolic link.
entryIsDirectory(entry) == entry.kind = "dir"

\* entry.isFile() of a Dirent: false for a symbolic link.
entryIsFile(entry) == entry.kind = "file"

walkFrame == <<mode, codecVars, compareVars, sshVars, churnVars, syncVars,
               quoteVars, deployVars, profilesSource, calls, bld, printed>>

WalkTop == walk.stack[Len(walk.stack)]
WalkEntries == walk.tree[WalkTop.dir]
WalkHasEntry ==
    /\ mode = "walk" /\ walk.pc = "walking"
    /\ WalkTop.idx <= Len(WalkEntries)
WalkEntry == WalkEntries[WalkTop.idx]
WalkAdvanced == [walk.stack EXCEPT ![Len(walk.stack)].idx = @ + 1]

\* `if (entry.isDirectory()) await walk(fullPath)`
WalkDescend ==
    /\ WalkHasEntry /\ entryIsDirectory(WalkEntry)
    /\ Len(walk.stack) < MaxDepth
    /\ walk' = [walk EXCEPT
                  !.stack = Append(WalkAdvanced,
                                   [dir |-> WalkEntry.to,
                                    path |-> Append(WalkTop.path, WalkEntry.name),
                                    idx |-> 1])]
    /\ UNCHANGED walkFrame

\* `else if (entry.isFile()) result.push(fullPath)`
WalkList ==
    /\ WalkHasEntry /\ ~entryIsDirectory(WalkEntry) /\ entryIsFile(WalkEntry)
    /\ walk' = [walk EXCEPT
                  !.stack = WalkAdvanced,
                  !.result = Append(@, Append(WalkTop.path, WalkEntry.name))]
    /\ UNCHANGED walkFrame

\* An entry that is neither: the loop goes on to the next entry.
WalkSkip ==
    /\ WalkHasEntry /\ ~entryIsDirectory(WalkEntry) /\ ~entryIsFile(WalkEntry)
    /\ walk' = [walk EXCEPT !.stack = WalkAdvanced]
    /\ UNCHANGED walkFrame

\* The loop of walk(dir) ends: return to the caller, or from collectFiles.
WalkReturn ==
    /\ mode = "walk" /\ walk.pc = "walking"
    /\ WalkTop.idx > Len(WalkEntries)
    /\ walk' = IF Len(walk.stack) = 1
                   THEN [walk EXCEPT !.stack = <<>>, !.pc = "done"]
                   ELSE [walk EXCEPT !.stack = SubSeq(@, 1, Len(@) - 1)]
    /\ UNCHANGED walkFrame

InitWalk ==
    /\ mode = "walk"
    /\ IdleCodec /\ IdleCompare /\ IdleSsh /\ IdleChurn /\ IdleSync /\ IdleQuote
    /\ IdleDeploy
    /\ profilesSource = <<>> /\ calls = <<>> /\ bld = <<>> /\ printed = <<>>
    /\ \E t \in TreePool :
          walk = [tree |-> t, pc |-> "walking", result |-> <<>>,
                  stack |-> <<[dir |-> "r", path |-> <<>>, idx |-> 1]>>]

NextWalk == WalkDescend \/ WalkList \/ WalkSkip \/ WalkReturn

\* The event loop runs every continuation that is ready.
SpecWalk == InitWalk /\ [][NextWalk]_vars /\ WF_vars(NextWalk)

\* The regular files under real directories of a tree, by their paths.
HasEntry(t, dir, name, kind) ==
    \E i \in 1..Len(t[dir]) : t[dir][i].name = name /\ t[dir][i].kind = kind

RealFiles(t) ==
    { <<n>> : n \in { x \in {"f"} : HasEntry(t, "r", x, "file") } }
    \cup { <<"d", n>> : n \in { x \in {"g"} :
               HasEntry(t, "r", "d", "dir") /\ HasEntry(t, "d", x, "file") } }
    \cup { <<"d", "e", n>> : n \in { x \in {"h"} :
               /\ HasEntry(t, "r", "d", "dir") /\ HasEntry(t, "d", "e", "dir")
               /\ HasEntry(t, "e", x, "file") } }

HasCycle(t) ==
    \/ HasEntry(t, "r", "l", "link")
    \/ HasEntry(t, "r", "d", "dir") /\ HasEntry(t, "d", "m", "link")
    \/ /\ HasEntry(t, "r", "d", "dir") /\ HasEntry(t, "d", "e", "dir")
       /\ HasEntry(t, "e", "n", "link")

WalkListedOnce ==
    /\ { walk.result[i] : i \in 1..Len(walk.result) } = RealFiles(walk.tree)
    /\ Len(walk.result) = Cardinality(RealFiles(walk.tree))

\* C34: enumeration of the asset tree terminates on every finite tree, also
\* with symbolic links to ancestor directories: links are neither followed
\* nor listed, and every regular file under real directories is listed
\* exactly once.
C34_WalkTerminates ==
    /\ <>(mode = "walk" /\ walk.pc = "done")
    /\ [](mode = "walk" =>
            /\ Len(walk.stack) <= 3
            /\ walk.pc = "done" => WalkListedOnce)

C34_Witness ==
    /\ mode = "walk" /\ walk.pc = "done"
    /\ HasEntry(walk.tree, "r", "l", "link")
    /\ HasEntry(walk.tree, "d", "m", "link")
    /\ HasEntry(walk.tree, "e", "n", "link")
    /\ walk.result = << <<"d", "e", "h">>, <<"f">> >>

----------------------------------------------------------------------------
(* build.ts: runBuild / runNuxtBuild. *)

MaxStream == 3

StreamChars == {"a", CR, NL}

\* What the build writes to its standard output, and how it arrives.
StdoutStreams == UNION { Chunkings(t) : t \in SeqsUpTo(StreamChars, MaxStream) }
\* What it writes to its standard error.
StderrStreams == Chunkings(<<"e", NL, "w">>) \cup {<<>>}

\* The arguments of the child's 'error' and 'close' events.
ErrorEvents == { [type |-> "error", code |-> c, signal |-> ""] : c \in {"ENOENT", "EACCES"} }
CloseEvents ==
    { [type |-> "close", code |-> 0, signal |-> ""],
      [type |-> "close", code |-> 1, signal |-> ""],
      [type |-> "close", code |-> NullCode, signal |-> "SIGINT"] }

\* flushLines(buffer, cb): the lines handed to cb and the returned rest.
buildFlushLines(buffer, hasCb) ==
    IF ~hasCb THEN [lines |-> <<>>, incomplete |-> <<>>]
    ELSE LET parts == SplitLines(buffer)
         IN  [lines |-> SubSeq(parts, 1, Len(parts) - 1),
              incomplete |-> parts[Len(parts)]]

\* The 'close' handler of the promise, with the signal test left out.
onCloseIgnoringSignal(code, signal) ==
    IF code = 0 THEN "resolved" ELSE "BUILD_FAILED"

\* The 'close' handler of the promise: what it settles the promise with.
onClose(code, signal) ==
    IF code = 0 THEN "resolved"
    ELSE IF signal # "" THEN "BUILD_INTERRUPTED"
    ELSE "BUILD_FAILED"

\* The 'error' handler of the promise.
onError(code) ==
    IF code = "ENOENT" THEN "BUILD_COMMAND_NOT_FOUND" ELSE "BUILD_FAILED"

\* resolve() / reject() of a promise: only the first call settles it.
Settle(b, result) ==
    [b EXCEPT !.settled = IF @ = "pending" THEN result ELSE @,
              !.settleCalls = @ + 1]

buildFrame == <<mode, codecVars, compareVars, sshVars, churnVars, syncVars,
                quoteVars, deployVars, profilesSource, calls, walk, printed>>

BuildRunning == mode = "runBuild" /\ ~bld.closed

\* child.stdout 'data' listener of wireOutput.
BuildStdoutData ==
    /\ BuildRunning /\ bld.out # <<>>
    /\ LET r == buildFlushLines(bld.outBuffer \o Head(bld.out), bld.cbOut)
       IN  bld' = [bld EXCEPT !.out = Tail(@),
                              !.outBuffer = r.incomplete,
                              !.outLines = @ \o r.lines,
                              !.lateLines = @ + IF bld.settled = "pending"
                                                    THEN 0 ELSE Len(r.lines)]
    /\ UNCHANGED buildFrame

\* child.stderr 'data' listener of wireOutput.
BuildStderrData ==
    /\ BuildRunning /\ bld.err # <<>>
    /\ LET r == buildFlushLines(bld.errBuffer \o Head(bld.err), bld.cbErr)
       IN  bld' = [bld EXCEPT !.err = Tail(@),
                              !.errBuffer = r.incomplete,
                              !.errLines = @ \o r.lines]
    /\ UNCHANGED buildFrame

\* The child could not be spawned: 'error', before any output.
BuildError ==
    /\ BuildRunning /\ bld.spawnFailed /\ bld.terminal = <<>>
    /\ \E e \in ErrorEvents :
          bld' = [Settle(bld, onError(e.code)) EXCEPT !.terminal = Append(@, e)]
    /\ UNCHANGED buildFrame

\* 'close': the streams have ended.  The listener of wireOutput was added
\* first and flushes the buffers, then the promise's listener settles.
BuildClose ==
    /\ BuildRunning /\ bld.out = <<>> /\ bld.err = <<>>
    /\ bld.spawnFailed => bld.terminal # <<>>
    /\ \E e \in CloseEvents :
          LET ro == IF bld.outBuffer # <<>>
                        THEN buildFlushLines(bld.outBuffer \o <<NL>>, bld.cbOut).lines
                        ELSE <<>>
              re == IF bld.errBuffer # <<>>
                        THEN buildFlushLines(bld.errBuffer \o <<NL>>, bld.cbErr).lines
                        ELSE <<>>
              flushed == [bld EXCEPT
                            !.outLines = @ \o ro,
                            !.errLines = @ \o re,
                            !.lateLines = @ + IF bld.settled = "pending"
                                                  THEN 0 ELSE Len(ro)]
          IN  bld' = [Settle(flushed, onClose(e.code, e.signal)) EXCEPT
                        !.terminal = Append(@, e),
                        !.closed = TRUE]
    /\ UNCHANGED buildFrame

\* The state after spawn() returned and the listeners were added.
BuildStart(outputMode, cbOut, cbErr, spawnFailed, out, err) ==
    [outputMode |-> outputMode, cbOut |-> cbOut, cbErr |-> cbErr,
     spawnFailed |-> spawnFailed,
     out |-> out, err |-> err,
     outContent |-> Concat(out), errContent |-> Concat(err),
     outBuffer |-> <<>>, errBuffer |-> <<>>,
     outLines |-> <<>>, errLines |-> <<>>,
     terminal |-> <<>>, settled |-> "pending", settleCalls |-> 0,
     lateLines |-> 0, closed |-> FALSE]

InitRunBuild ==
    /\ mode = "runBuild"
    /\ IdleCodec /\ IdleCompare /\ IdleSsh /\ IdleChurn /\ IdleSync /\ IdleQuote
    /\ IdleDeploy
    /\ profilesSource = <<>> /\ calls = <<>> /\ walk = <<>> /\ printed = <<>>
    /\ \/ \E outputMode \in {"inherit", "silent", "callbacks"}, failed \in BOOLEAN :
             bld = BuildStart(outputMode, FALSE, FALSE, failed, <<>>, <<>>)
       \/ \E cbOut, cbErr \in BOOLEAN, out \in StdoutStreams, err \in StderrStreams :
             bld = BuildStart("callbacks", cbOut, cbErr, FALSE, out, err)

NextRunBuild == BuildStdoutData \/ BuildStderrData \/ BuildError \/ BuildClose

SpecRunBuild == InitRunBuild /\ [][NextRunBuild]_vars

\* The outcome the first terminal event of a child stands for.
OutcomeOf(e) ==
    CASE e.type = "error" /\ e.code = "ENOENT" -> "BUILD_COMMAND_NOT_FOUND"
      [] e.type = "error" /\ e.code # "ENOENT" -> "BUILD_FAILED"
      [] e.type = "close" /\ e.code = 0 -> "resolved"
      [] e.type = "close" /\ e.code # 0 /\ e.signal # "" -> "BUILD_INTERRUPTED"
      [] e.type = "close" /\ e.code # 0 /\ e.signal = "" -> "BUILD_FAILED"

\* C35: runBuild settles exactly once, with the outcome of the first terminal
\* child event: error ENOENT rejects with BUILD_COMMAND_NOT_FOUND, any other
\* error with BUILD_FAILED, close with code 0 resolves, close by a signal
\* rejects with BUILD_INTERRUPTED, close with another code with BUILD_FAILED.
C35_SettlesWithFirstTerminalEvent ==
    mode = "runBuild" =>
        IF bld.terminal = <<>> THEN bld.settled = "pending"
        ELSE bld.settled = OutcomeOf(bld.terminal[1])

C35_Witness ==
    /\ mode = "runBuild"
    /\ Len(bld.terminal) = 2 /\ bld.settleCalls = 2
    /\ bld.terminal[1].code = "ENOENT"
    /\ bld.terminal[2].signal = "SIGINT"
    /\ bld.settled = "BUILD_COMMAND_NOT_FOUND"

C35_WitnessSignal ==
    /\ mode = "runBuild"
    /\ Len(bld.terminal) = 1 /\ bld.terminal[1].signal = "SIGINT"
    /\ bld.settled = "BUILD_INTERRUPTED"

\* A stream's content split at LF or CRLF; text after the last terminator,
\* if there is any, is the unterminated final line.
ContentLines(text) ==
    LET parts == SplitLines(text)
    IN  IF parts[Len(parts)] = <<>> THEN SubSeq(parts, 1, Len(parts) - 1)
        ELSE parts

DeliveredAll ==
    /\ mode = "runBuild" /\ bld.closed
    /\ bld.outputMode = "callbacks" /\ bld.cbOut

\* C36: in callbacks mode the lines delivered to onStdoutLine are the
\* stream's full content split at LF or CRLF, in order and each once, the
\* unterminated final line delivered at close before the promise settles,
\* whatever the division of the stream into chunks.
C36_LinesAreContentSplit ==
    DeliveredAll =>
        /\ bld.outLines = ContentLines(bld.outContent)
        /\ bld.lateLines = 0

EndsInCR(text) == text # <<>> /\ text[Len(text)] = CR

\* The delivered lines differ from the content's lines only for a stream
\* whose unterminated final line ends in a carriage return: the flush at
\* close reads that carriage return and its own newline as a CRLF.
C36_ExceptFinalCarriageReturn ==
    DeliveredAll =>
        /\ ~EndsInCR(bld.outContent) => bld.outLines = ContentLines(bld.outContent)
        /\ EndsInCR(bld.outContent) =>
              bld.outLines = ContentLines(bld.outContent \o <<NL>>)
        /\ bld.lateLines = 0

C36_CarriageReturnLost ==
    /\ DeliveredAll
    /\ bld.outContent = <<"a", CR>>
    /\ bld.outLines = << <<"a">> >>

----------------------------------------------------------------------------
(* Properties of the baseline across a deploy run. *)

BaselineOverwritten == mode = "deploy" /\ host.baseline # host0.baseline

\* The sync phase of this run has mirrored the build output to the host.
SyncCompleted ==
    /\ ~deploy.dryRun
    /\ \E i \in 1..Len(trace) : trace[i] = Ran(RsyncCommand(FALSE))
    /\ host.output = "new"

\* C37: the remote baseline is overwritten only in a run whose sync phase
\* has already completed successfully without dryRun, so the stored baseline
\* always describes assets a deploy has synced to the server.
C37_BaselineOnlyAfterSync == BaselineOverwritten => SyncCompleted

\* In a full deploy the baseline is overwritten only after the sync.
C37_FullDeployBaselineAfterSync ==
    BaselineOverwritten /\ ~deploy.churnOnly => SyncCompleted

C37_ChurnOnlyOverwrites ==
    /\ BaselineOverwritten
    /\ deploy.churnOnly /\ ~deploy.dryRun
    /\ ~Called("sync")
    /\ host.output = "absent"
    /\ ExitedWith(0)

----------------------------------------------------------------------------
(* Properties of two computeClientChurn calls in a row. *)

\* The second call, made after a call without dryRun that returned, has run
\* its existence check and its read, and both exited with status 0.
FetchedAfterUpload ==
    /\ mode = "churn" /\ prior # <<>> /\ ~prior[1].dryRun
    /\ fetched # <<>> /\ readRun # <<>>
    /\ existsRun[1].exited /\ existsRun[1].exitCode = 0 /\ ~existsRun[1].errorEvent
    /\ readRun[1].exited /\ readRun[1].exitCode = 0 /\ ~readRun[1].errorEvent

\* The text the first call uploaded: the baseline file it left behind.
UploadedText == prior[1].remote[1]

AllStable(m) ==
    /\ m.stableFiles = m.totalNewFiles
    /\ m.changedFiles = 0 /\ m.addedFiles = 0 /\ m.removedFiles = 0

\* C38: after a computeClientChurn call with dryRun false succeeded, the next
\* call over the unchanged asset tree fetches `ok` with exactly the uploaded
\* text and reports stableFiles = totalNewFiles and no changed, added or
\* removed file.
C38_NextCallSeesUploadedBaseline ==
    FetchedAfterUpload =>
        /\ fetched[1].kind = "ok"
        /\ fetched[1].content = UploadedText
        /\ metrics # <<>> => AllStable(metrics[1])

\* The same, for the calls whose read returned all the child wrote.
C38_WhenReadComplete ==
    FetchedAfterUpload /\ fetched[1].kind = "ok"
                       /\ fetched[1].content = readRun[1].fullOut =>
        /\ fetched[1].content = UploadedText
        /\ UploadedText = buildLocalManifestContent(files)
        /\ metrics # <<>> => AllStable(metrics[1])

C38_TruncatedSecondRead ==
    /\ FetchedAfterUpload
    /\ fetched[1].kind = "ok"
    /\ fetched[1].content # UploadedText
    /\ metrics # <<>> /\ metrics[1].addedFiles > 0
    /\ cpc = "returned"

----------------------------------------------------------------------------
(* Properties of readRemoteConfig. *)

IsCmd(i, name) == trace[i].kind = "cmd" /\ trace[i].name = name

\* The existence check that precedes the read at position i of the trace.
CheckBefore(i) == trace[i - 1]

\* C39: the PM2 config comparison issues `cat` only after its existence
\* check exited with status 0; a check that exits non-zero with diagnostic
\* output raises PM2_CONFIG_COMPARE_FAILED without a read, as in the churn
\* baseline fetch.
C39_ConfigReadOnlyAfterCheckExitedZero ==
    \A i \in 1..Len(trace) :
        IsCmd(i, "pm2:cat") =>
            /\ i > 1 /\ IsCmd(i - 1, "pm2:test")
            /\ CheckBefore(i).ok

\* The read always follows an existence check that ran, and a read issued
\* after a check that exited non-zero finds no file and fails.
C39_ReadFollowsCheck ==
    \A i \in 1..Len(trace) :
        IsCmd(i, "pm2:cat") =>
            /\ i > 1 /\ IsCmd(i - 1, "pm2:test")
            /\ CheckBefore(i).spawned
            /\ ~CheckBefore(i).ok => ~trace[i].ok

C39_ReadAfterFailedCheck ==
    /\ pm # <<>> /\ pm.outputMode = "inherit"
    /\ pm.pc = "rejected" /\ pm.outcome = <<"PM2_CONFIG_COMPARE_FAILED">>
    /\ \E i \in 2..Len(trace) :
          /\ IsCmd(i, "pm2:cat") /\ IsCmd(i - 1, "pm2:test")
          /\ ~CheckBefore(i).ok

----------------------------------------------------------------------------
(* Properties of the churn summary header. *)

NoBaselineHeaders ==
    { "Client cache impact (no previous baseline, dry run; baseline not updated)",
      "Client cache impact (no previous baseline)" }

\* The header logged for the call that has just returned.
HeaderNow == (CHOOSE e \in { printed[i] : i \in 1..Len(printed) } :
                  e.call = CallNumber).header

HeaderLogged == mode = "churn" /\ cpc = "returned" /\ SummaryLogged

\* The header says "no previous baseline" exactly when the fetch yielded
\* `none`.
C40_NoBaselineHeaderIffNone ==
    HeaderLogged =>
        (HeaderNow \in NoBaselineHeaders <=> fetched[1].kind = "none")

\* C40 (amended): the header reports no previous baseline exactly when the
\* baseline contributed no entry to the comparison: always when the fetch
\* yielded `none`, and when it yielded `ok` with a text without a valid
\* manifest line; for `ok` with at least one valid line it reports a
\* comparison against the previous baseline.
C40_NoBaselineHeaderIffNoOldEntry ==
    HeaderLogged =>
        /\ HeaderNow \in NoBaselineHeaders
              <=> DOMAIN parseManifest(oldContent) = {}
        /\ fetched[1].kind = "none" => HeaderNow \in NoBaselineHeaders
        /\ fetched[1].kind = "ok" /\ DOMAIN parseManifest(fetched[1].content) # {}
              => HeaderNow \notin NoBaselineHeaders

\* The baseline file exists and is empty, written by a call over an empty
\* asset tree; it is read completely, and the header of the next call says
\* there is no previous baseline.
C40_Witness ==
    /\ HeaderLogged
    /\ prior # <<>> /\ ~prior[1].dryRun /\ files = <<>>
    /\ fetched[1].kind = "ok" /\ fetched[1].content = readRun[1].fullOut
    /\ HeaderNow = "Client cache impact (no previous baseline)"

C40_WitnessComparison ==
    /\ HeaderLogged
    /\ fetched[1].kind = "ok" /\ dryRun
    /\ HeaderNow = "Client cache impact (dry run; baseline not updated)"

============================================================================
